---- MODULE Spec2Model ----
(***************************************************************************)
(* Model of the dotted-globe component, client/src/components/Globe.tsx.   *)
(*                                                                         *)
(* Spec is the life cycle of one component instance: the effect that       *)
(* builds a view (mount), its cleanup (teardown), the topology load with   *)
(* its process-wide cache, the pointer/touch handlers, the cooldown timers *)
(* and the frame callback.  The refs (useRef) belong to the instance and   *)
(* survive a teardown; everything the effect declares with const/let       *)
(* belongs to one run of the effect, called a view here.                   *)
(*                                                                         *)
(* Coordinates are integers in units of 1/5 degree, so that the default    *)
(* highlight density (0.20 degree) is one unit.  Time is in milliseconds.  *)
(* Angles are fixed-point numbers in units of 1/1000 radian; a product with *)
(* a rate is rounded to the nearest unit, as a floating-point product is    *)
(* rounded to the nearest representable number.  Pointer positions are in   *)
(* pixels.                                                                  *)
(***************************************************************************)
EXTENDS Integers, Sequences, FiniteSets, TLC

\* ------------------------------------------------------------------ bounds

MaxViews == 2        \* runs of the effect (mounts) in one behaviour
MaxTimers == 2       \* cooldown timers created in one behaviour
TickMs == 750        \* granularity of the passage of time
MaxAngle == 6500     \* largest target y-angle a drag is followed to
MaxTilt == 150       \* largest distance on x a drag is followed to
MaxArcLen == 2       \* deltas of one arc
MaxRingArcs == 2     \* arc indexes of one ring
MaxDragMs == 1000    \* longest duration of a drag that is followed
MaxPulseFrames == 260 \* frames that advance a pulse, in one behaviour
MaxLoadFrames == 2   \* the same, while the two requests are followed
MaxShimmerFrames == 40 \* the same, while the drag uniforms are followed

\* ------------------------------------------------------- program constants

CooldownMs == 1500   \* setTimeout(..., 1500)
UnitsPerDegree == 5  \* 1 / 0.20, the default highlight density
Pi == 3142           \* Math.PI, in units of 1/1000 radian
GainPerPixel == 5    \* 0.005 radian per pixel of pointer travel
MagnetRate == 9      \* 0.09 of the remaining distance, in percent
DisplayRate == 8     \* 0.08 of the remaining distance, in percent
SnapThreshold == 10  \* 0.01 radian
FocusLatRate == 69   \* the factor 0.69 of focusRotation, in percent
DecayPerFrame == 30  \* Math.max(0, cur - 30), in milliseconds
PulseStep == 6       \* arc.pulseProgress += 0.006, in units of 1/1000
PulseLimit == 1200   \* arc.pulseProgress > 1.2
PulseEnd == 1000     \* p < 1
DelayPerIndex == 150 \* delay: index * 0.15
Segments == 50       \* segments of createArc
GlobeRadius == 1000  \* globeRadius = 1, in units of 1/1000

\* ------------------------------------------------------------- sequences

Reverse(s) == [i \in 1..Len(s) |-> s[Len(s) + 1 - i]]

RECURSIVE Flatten(_)
Flatten(ss) == IF ss = <<>> THEN <<>> ELSE Head(ss) \o Flatten(Tail(ss))

Min2(a, b) == IF a < b THEN a ELSE b
Max2(a, b) == IF a > b THEN a ELSE b

RECURSIVE SeqMin(_)
SeqMin(s) == IF Len(s) = 1 THEN s[1] ELSE Min2(s[1], SeqMin(Tail(s)))
RECURSIVE SeqMax(_)
SeqMax(s) == IF Len(s) = 1 THEN s[1] ELSE Max2(s[1], SeqMax(Tail(s)))

\* ----------------------------------------------------------------- angles

TwoPi == 2 * Pi

Abs(n) == IF n < 0 THEN -n ELSE n

\* n / d rounded to the nearest integer, d > 0.
roundDiv(n, d) ==
    IF n >= 0 THEN (2 * n + d) \div (2 * d) ELSE -((2 * (-n) + d) \div (2 * d))

\* distance * rate, the rate in percent.
mulRate(distance, rate) == roundDiv(distance * rate, 100)

\* The rotation that centres the globe on a latitude and longitude in degrees.
focusRotation(lat, lng) ==
    [x |-> roundDiv(lat * Pi * FocusLatRate, 180 * 100),
     y |-> -roundDiv((lng + 90) * Pi, 180)]

RECURSIVE normalizeAngle(_)
normalizeAngle(angle) ==
    IF angle > Pi THEN normalizeAngle(angle - TwoPi)
    ELSE IF angle < -Pi THEN normalizeAngle(angle + TwoPi)
    ELSE angle

\* The difference without the two conditional statements.
magnetDiffYUnwrapped(targetY, focusY) == focusY - normalizeAngle(targetY)

\* diffY of the magnet branch: one conditional subtraction, one conditional
\* addition.
magnetDiffY(targetY, focusY) ==
    LET raw == focusY - normalizeAngle(targetY)
        lowered == IF raw > Pi THEN raw - TwoPi ELSE raw
    IN IF lowered < -Pi THEN lowered + TwoPi ELSE lowered

\* The branch with the sign of its x step reversed.
magnetStepRepelled(target, focusRot) ==
    LET diffY == magnetDiffY(target.y, focusRot.y)
        x == target.x - mulRate(focusRot.x - target.x, MagnetRate)
        y == target.y + mulRate(diffY, MagnetRate)
    IN IF Abs(x - focusRot.x) < SnapThreshold /\ Abs(diffY) < SnapThreshold
       THEN focusRot
       ELSE [x |-> x, y |-> y]

\* The branch without its snap.
magnetStepNoSnap(target, focusRot) ==
    [x |-> target.x + mulRate(focusRot.x - target.x, MagnetRate),
     y |-> target.y + mulRate(magnetDiffY(target.y, focusRot.y), MagnetRate)]

\* The target rotation the magnet branch leaves behind.
magnetStep(target, focusRot) ==
    LET diffY == magnetDiffY(target.y, focusRot.y)
        x == target.x + mulRate(focusRot.x - target.x, MagnetRate)
        y == target.y + mulRate(diffY, MagnetRate)
    IN IF Abs(x - focusRot.x) < SnapThreshold /\ Abs(diffY) < SnapThreshold
       THEN focusRot
       ELSE [x |-> x, y |-> y]

\* The easing statements with a rate above one.
easeDisplayOvershoot(displayed, target) ==
    [x |-> displayed.x + mulRate(target.x - displayed.x, 100 + DisplayRate),
     y |-> displayed.y + mulRate(target.y - displayed.y, 100 + DisplayRate)]

\* globeGroup.rotation after the two easing statements.
easeDisplay(displayed, target) ==
    [x |-> displayed.x + mulRate(target.x - displayed.x, DisplayRate),
     y |-> displayed.y + mulRate(target.y - displayed.y, DisplayRate)]

\* -------------------------------------------------------------- animation

\* The uniforms of a dot material as `new THREE.ShaderMaterial` sets them.
NewUniforms == [u_drag_time |-> 0, u_is_dragging |-> 0]

\* The uniforms with a flag that is cleared by the frame that reaches zero.
dragUniformsEager(u, dragging, elapsed) ==
    IF dragging THEN [u_drag_time |-> elapsed, u_is_dragging |-> 1]
    ELSE [u_drag_time |-> Max2(0, u.u_drag_time - DecayPerFrame),
          u_is_dragging |-> IF u.u_drag_time - DecayPerFrame <= 0 THEN 0
                            ELSE u.u_is_dragging]

\* The two drag uniforms after the `if (isDraggingRef.current) ... else ...` of
\* animate(), `elapsed` being performance.now() - dragStartTimeRef.current.
dragUniforms(u, dragging, elapsed) ==
    IF dragging
    THEN [u_drag_time |-> elapsed, u_is_dragging |-> 1]
    ELSE [u_drag_time |-> Max2(0, u.u_drag_time - DecayPerFrame),
          u_is_dragging |-> IF u.u_drag_time <= 0 THEN 0 ELSE u.u_is_dragging]

\* The entry arcsRef.current.push(...) adds for the connection `index`, with
\* `random` what Math.random() returned.  A new THREE.Group is visible and
\* sits at the origin, on no sample of the arc.
newPulse(index, random) ==
    [index |-> index, pulseProgress |-> random, delay |-> index * DelayPerIndex,
     visible |-> TRUE, sample |-> -1]

\* One iteration of the pulse loop of animate().
\* The step that starts a pass again at minus the whole delay.
advancePulseWholeDelay(arc) ==
    LET grown == arc.pulseProgress + PulseStep
        p == IF grown > PulseLimit THEN -arc.delay ELSE grown
    IN IF p > 0 /\ p < PulseEnd
       THEN [arc EXCEPT !.pulseProgress = p, !.visible = TRUE,
                        !.sample = (p * Segments) \div PulseEnd]
       ELSE [arc EXCEPT !.pulseProgress = p, !.visible = FALSE]

\* The step that still shows the pulse at the end of the arc.
advancePulseToTheEnd(arc) ==
    LET grown == arc.pulseProgress + PulseStep
        p == IF grown > PulseLimit THEN -(arc.delay \div 2) ELSE grown
    IN IF p > 0 /\ p <= PulseEnd
       THEN [arc EXCEPT !.pulseProgress = p, !.visible = TRUE,
                        !.sample = (p * Segments) \div PulseEnd]
       ELSE [arc EXCEPT !.pulseProgress = p, !.visible = FALSE]

advancePulse(arc) ==
    LET grown == arc.pulseProgress + PulseStep
        p == IF grown > PulseLimit THEN -(arc.delay \div 2) ELSE grown
    IN IF p > 0 /\ p < PulseEnd
       THEN [arc EXCEPT !.pulseProgress = p, !.visible = TRUE,
                        !.sample = (p * Segments) \div PulseEnd]
       ELSE [arc EXCEPT !.pulseProgress = p, !.visible = FALSE]

\* -------------------------------------------------------- topology decoder

\* The absolute (quantised) positions of one arc: running sums of its deltas.
RECURSIVE runningSums(_, _, _)
runningSums(arc, x, y) ==
    IF arc = <<>> THEN <<>>
    ELSE LET nx == x + Head(arc)[1]
             ny == y + Head(arc)[2]
         IN <<<<nx, ny>>>> \o runningSums(Tail(arc), nx, ny)

\* The transform without its translation.
applyTransformScaleOnly(topology, p) ==
    IF topology.hasTransform
    THEN <<p[1] * topology.scale[1], p[2] * topology.scale[2]>>
    ELSE p

\* lng = x * scale[0] + translate[0], lat = y * scale[1] + translate[1].
applyTransform(topology, p) ==
    IF topology.hasTransform
    THEN <<p[1] * topology.scale[1] + topology.translate[1],
           p[2] * topology.scale[2] + topology.translate[2]>>
    ELSE p

\* One iteration of arcToCoords' loop: the coordinates of one signed arc index.
arcCoords(topology, arcIndex) ==
    LET arc == topology.arcs[(IF arcIndex < 0 THEN -arcIndex - 1 ELSE arcIndex) + 1]
        abs == runningSums(arc, 0, 0)
        out == [i \in 1..Len(abs) |-> applyTransform(topology, abs[i])]
    IN IF arcIndex < 0 THEN Reverse(out) ELSE out

\* The loop without `.slice(coords.length > 0 ? 1 : 0)`.
RECURSIVE arcToCoordsKeepingJoints(_, _, _)
arcToCoordsKeepingJoints(topology, arcIndexes, coords) ==
    IF arcIndexes = <<>> THEN coords
    ELSE arcToCoordsKeepingJoints(topology, Tail(arcIndexes),
                                  coords \o arcCoords(topology, Head(arcIndexes)))

RECURSIVE arcToCoordsFrom(_, _, _)
arcToCoordsFrom(topology, arcIndexes, coords) ==
    IF arcIndexes = <<>> THEN coords
    ELSE LET ac == arcCoords(topology, Head(arcIndexes))
             rest == SubSeq(ac, IF Len(coords) > 0 THEN 2 ELSE 1, Len(ac))
         IN arcToCoordsFrom(topology, Tail(arcIndexes), coords \o rest)

arcToCoords(topology, arcIndexes) == arcToCoordsFrom(topology, arcIndexes, <<>>)

\* The loop with `coords.length > 1`.
ringsToPolygonsKeepingPairs(topology, rings) ==
    SelectSeq([i \in 1..Len(rings) |-> arcToCoords(topology, rings[i])],
              LAMBDA coords : Len(coords) > 1)

\* The rings of one geometry, each decoded, the degenerate ones dropped.
ringsToPolygons(topology, rings) ==
    SelectSeq([i \in 1..Len(rings) |-> arcToCoords(topology, rings[i])],
              LAMBDA coords : Len(coords) > 2)

geomToPolygons(topology, geom) ==
    IF geom.type = "Polygon" THEN ringsToPolygons(topology, geom.arcs)
    ELSE IF geom.type = "MultiPolygon"
         THEN ringsToPolygons(topology, Flatten(geom.arcs))
         ELSE <<>>

\* `topology.objects[objectName]` throws a TypeError on null and on a document
\* that has no `objects`.
readObjectsThrows(topology) == topology.isNull \/ ~topology.hasObjects

topoJsonToPolygons(topology, objectName) ==
    IF objectName \notin DOMAIN topology.objects THEN <<>>
    ELSE LET obj == topology.objects[objectName]
             geometries == IF obj.type = "GeometryCollection"
                           THEN obj.geometries ELSE <<obj>>
         IN Flatten([i \in 1..Len(geometries) |->
                        geomToPolygons(topology, geometries[i])])

\* A comparison that accepts every geometry.
idMatchesAll(id, countryId) == TRUE

\* geom.id === countryId || String(geom.id) === countryId, countryId a string.
idMatches(id, countryId) ==
    (id.isString /\ id.text = countryId) \/ id.text = countryId

getCountryPolygons(topology, countryId) ==
    IF "countries" \notin DOMAIN topology.objects THEN <<>>
    ELSE LET countries == topology.objects["countries"]
         IN IF countries.type # "GeometryCollection" THEN <<>>
            ELSE Flatten([i \in 1..Len(countries.geometries) |->
                     IF idMatches(countries.geometries[i].id, countryId)
                     THEN geomToPolygons(topology, countries.geometries[i])
                     ELSE <<>>])

\* ------------------------------------------------------- point classifier

getPolygonBounds(polygon) ==
    LET xs == [i \in 1..Len(polygon) |-> polygon[i][1]]
        ys == [i \in 1..Len(polygon) |-> polygon[i][2]]
    IN [minX |-> SeqMin(xs), maxX |-> SeqMax(xs),
        minY |-> SeqMin(ys), maxY |-> SeqMax(ys)]

\* The comparison with <= for <.
leftOfEdgeInclusive(x, y, pi, pj) ==
    LET d == pj[2] - pi[2]
        n == (pj[1] - pi[1]) * (y - pi[2])
    IN IF d > 0 THEN (x - pi[1]) * d <= n ELSE (x - pi[1]) * d >= n

\* x < (xj - xi) * (y - yi) / (yj - yi) + xi, without the division.
leftOfEdge(x, y, pi, pj) ==
    LET d == pj[2] - pi[2]
        n == (pj[1] - pi[1]) * (y - pi[2])
    IN IF d > 0 THEN (x - pi[1]) * d < n ELSE (x - pi[1]) * d > n

crosses(x, y, pi, pj) ==
    /\ (pi[2] > y) # (pj[2] > y)
    /\ leftOfEdge(x, y, pi, pj)

RECURSIVE rayCast(_, _, _, _, _)
rayCast(x, y, polygon, i, inside) ==
    IF i > Len(polygon) THEN inside
    ELSE LET j == IF i = 1 THEN Len(polygon) ELSE i - 1
         IN rayCast(x, y, polygon, i + 1,
                    IF crosses(x, y, polygon[i], polygon[j]) THEN ~inside ELSE inside)

\* The test of the early return of pointInPolygon.
outsideBounds(point, bounds) ==
    \/ point[1] < bounds.minX
    \/ point[1] > bounds.maxX
    \/ point[2] < bounds.minY
    \/ point[2] > bounds.maxY

\* pointInPolygon once getPolygonBounds has returned `bounds`.
pointInPolygonWithin(point, polygon, bounds) ==
    IF outsideBounds(point, bounds) THEN FALSE
    ELSE rayCast(point[1], point[2], polygon, 1, FALSE)

\* pointInPolygon on a ring the cache has no entry for.
pointInPolygon(point, polygon) ==
    pointInPolygonWithin(point, polygon, getPolygonBounds(polygon))

pointInMultiPolygon(point, polygons) ==
    \E i \in 1..Len(polygons) : pointInPolygon(point, polygons[i])

\* ------------------------------------------------------------ dot fields

\* The values lo, lo + step, ... that do not exceed hi (for loops of the scans).
RECURSIVE stepsUpTo(_, _, _)
stepsUpTo(lo, hi, step) ==
    IF lo > hi THEN <<>> ELSE <<lo>> \o stepsUpTo(lo + step, hi, step)

\* The bounds half of computePolygonsMeta.
computePolygonsMeta(polygons) ==
    LET pts == Flatten(polygons)
        lngs == [i \in 1..Len(pts) |-> pts[i][1]]
        lats == [i \in 1..Len(pts) |-> pts[i][2]]
    IN [minLat |-> SeqMin(lats), maxLat |-> SeqMax(lats),
        minLng |-> SeqMin(lngs), maxLng |-> SeqMax(lngs)]

\* The grid points generateHighlightDots emits a dot for, as <<lng, lat>>.
generateHighlightDots(highlightPolygons, bounds, density) ==
    LET lats == stepsUpTo(bounds.minLat, bounds.maxLat, density)
        lngs == stepsUpTo(bounds.minLng, bounds.maxLng, density)
        row(lat) == SelectSeq([j \in 1..Len(lngs) |-> <<lngs[j], lat>>],
                              LAMBDA p : pointInMultiPolygon(p, highlightPolygons))
    IN Flatten([i \in 1..Len(lats) |-> row(lats[i])])

\* The grid points generateWorldDots emits a dot for, as <<lng, lat>>.
generateWorldDots(landPolygons, step) ==
    LET lats == stepsUpTo(-85 * UnitsPerDegree, 85 * UnitsPerDegree, step)
        lngs == stepsUpTo(-180 * UnitsPerDegree, 180 * UnitsPerDegree - 1, step)
        row(lat) == SelectSeq([j \in 1..Len(lngs) |-> <<lngs[j], lat>>],
                              LAMBDA p : pointInMultiPolygon(p, landPolygons))
    IN Flatten([i \in 1..Len(lats) |-> row(lats[i])])

\* The three arrays generateWorldDots returns, one push per emitted dot and
\* array: an entry is the number of its dot and the component pushed.
dotArrays(dots) ==
    [positions |-> Flatten([k \in 1..Len(dots) |-> <<<<k, "x">>, <<k, "y">>, <<k, "z">>>>]),
     colors |-> Flatten([k \in 1..Len(dots) |-> <<<<k, "r">>, <<k, "g">>, <<k, "b">>>>]),
     rndIds |-> [k \in 1..Len(dots) |-> <<k, "rnd">>]]

\* ------------------------------------------------------------------ arcs
\* Vectors are <<x, y, z>> in units of 1/1000 of the globe radius.

\* Math.sqrt, rounded down.
isqrt(n) ==
    LET RECURSIVE from(_)
        from(x) == LET y == (x + n \div x) \div 2
                   IN IF y >= x THEN x ELSE from(y)
    IN IF n = 0 THEN 0 ELSE from(n)

\* Vector3.length().
vectorLength(v) == isqrt(v[1] * v[1] + v[2] * v[2] + v[3] * v[3])

\* Math.sin(t * Math.PI) for t = i / segments, i = 0..50, in units of 1/1000.
SinTable ==
    <<0, 63, 125, 187, 249, 309, 368, 426, 482, 536, 588, 637, 685, 729, 771,
      809, 844, 876, 905, 930, 951, 969, 982, 992, 998, 1000, 998, 992, 982,
      969, 951, 930, 905, 876, 844, 809, 771, 729, 685, 637, 588, 536, 482, 426,
      368, 309, 249, 187, 125, 63, 0>>

\* Vector3.normalize() followed by multiplyScalar(length): normalize divides
\* by length() || 1, so the zero vector stays the zero vector.
normalizeTo(v, length) ==
    LET norm == vectorLength(v)
    IN IF norm = 0 THEN <<0, 0, 0>>
       ELSE [c \in 1..3 |-> roundDiv(v[c] * length, norm)]

\* The points of createArc(start, end, color, globeRadius).  The coordinates
\* of start and end are multiples of 10, so that five times the interpolated
\* vector is whole; its direction is what normalize() keeps.
createArc(start, end, globeRadius) ==
    LET distance == vectorLength([c \in 1..3 |-> start[c] - end[c]])
        arcHeight == Min2((globeRadius * 4) \div 10, roundDiv(distance * 3, 10))
        lerp5(i) == [c \in 1..3 |->
                        (Segments * start[c] + (end[c] - start[c]) * i) \div 10]
    IN [k \in 1..(Segments + 1) |->
           normalizeTo(lerp5(k - 1),
                       globeRadius + roundDiv(arcHeight * SinTable[k], 1000))]

\* ------------------------------------------------------------- documents
\* What the two requests can deliver.  Each document is a parsed JSON value.

NoObjects == [x \in {} |-> 0]
\* A geometry without `id`: String(undefined) is "undefined".
NoId == [isString |-> FALSE, text |-> "undefined"]

Polygon(id, rings) ==
    [type |-> "Polygon", id |-> id, arcs |-> rings, geometries |-> <<>>]
MultiPolygon(id, polygons) ==
    [type |-> "MultiPolygon", id |-> id, arcs |-> polygons, geometries |-> <<>>]
GeometryCollection(geometries) ==
    [type |-> "GeometryCollection", id |-> NoId, arcs |-> <<>>,
     geometries |-> geometries]

\* JSON null: falsy, and reading `.objects` of it throws.
NullDocument ==
    [isNull |-> TRUE, hasObjects |-> FALSE, objects |-> NoObjects, arcs |-> <<>>,
     hasTransform |-> FALSE, scale |-> <<1, 1>>, translate |-> <<0, 0>>]

\* The JSON value {}: truthy, parsed, and not a topology.
EmptyDocument ==
    [isNull |-> FALSE, hasObjects |-> FALSE, objects |-> NoObjects, arcs |-> <<>>,
     hasTransform |-> FALSE, scale |-> <<1, 1>>, translate |-> <<0, 0>>]

\* Land: one rectangle, 30..60 degrees east, 30..50 degrees north, quantised in
\* degrees and scaled to units by the transform.
LandDocument ==
    [isNull |-> FALSE, hasObjects |-> TRUE,
     objects |-> [n \in {"land"} |->
                    GeometryCollection(<<MultiPolygon(NoId, << << <<0>> >> >>)>>)],
     arcs |-> << << <<30, 30>>, <<30, 0>>, <<0, 20>>, <<-30, 0>>, <<0, -20>> >> >>,
     hasTransform |-> TRUE, scale |-> <<5, 5>>, translate |-> <<0, 0>>]

\* Countries: Georgia ("268") as a rectangle 44..45 east, 42..42.4 north, made of
\* two arcs, the second referenced reversed; and 4, whose only ring is degenerate.
CountriesDocument ==
    [isNull |-> FALSE, hasObjects |-> TRUE,
     objects |-> [n \in {"countries"} |->
                    GeometryCollection(<<
                        Polygon([isString |-> TRUE, text |-> "268"], << <<0, -2>> >>),
                        MultiPolygon([isString |-> FALSE, text |-> "4"],
                                     << << <<2>> >> >>) >>)],
     arcs |-> << << <<220, 210>>, <<5, 0>>, <<0, 2>> >>,
                 << <<220, 210>>, <<0, 2>>, <<5, 0>> >>,
                 << <<0, 0>>, <<5, 5>> >> >>,
     hasTransform |-> FALSE, scale |-> <<1, 1>>, translate |-> <<0, 0>>]

DocumentNames == {"land", "countries", "empty", "null"}

Document(name) ==
    CASE name = "land" -> LandDocument
      [] name = "countries" -> CountriesDocument
      [] name = "empty" -> EmptyDocument
      [] OTHER -> NullDocument

\* JavaScript truthiness of a cache slot or a parsed document.
truthy(name) == ~Document(name).isNull

\* ------------------------------------------------------------ host props

HighlightProps == {"omitted", "null", "hit", "miss", "emptyScan"}
ConnectionsProps == {"omitted", "one"}

GeorgiaISO == "268"

NoBounds == [minLat |-> 0, maxLat |-> 0, minLng |-> 0, maxLng |-> 0]

\* The destructuring default of the component: highlight = { countryISO: '268' }.
defaultHighlight ==
    [isNull |-> FALSE, countryISO |-> GeorgiaISO, hasBounds |-> FALSE,
     bounds |-> NoBounds, hasDotDensity |-> FALSE, dotDensity |-> 0]

\* The highlight the component body sees for each value of the prop.
highlightOf(prop) ==
    CASE prop = "omitted" -> defaultHighlight
      [] prop = "null" -> [defaultHighlight EXCEPT !.isNull = TRUE]
      [] prop = "hit" ->
            [defaultHighlight EXCEPT !.hasDotDensity = TRUE,
                                     !.dotDensity = UnitsPerDegree]
      [] prop = "miss" -> [defaultHighlight EXCEPT !.countryISO = "999"]
      [] OTHER ->
            [defaultHighlight EXCEPT !.hasBounds = TRUE,
                !.bounds = [minLat |-> 0, maxLat |-> UnitsPerDegree,
                            minLng |-> 0, maxLng |-> UnitsPerDegree]]

DefaultConnections == 10
connectionCount(prop) == IF prop = "omitted" THEN DefaultConnections ELSE 1

\* TBILISI_COORDS, to the degree.
Tbilisi == [lat |-> 42, lng |-> 45]
\* The focus point whose rotation is (0, 0).
Facing == [lat |-> 0, lng |-> -90]
\* Focus points on the equator: 80 east (y = -170 degrees), and the two ends of
\* the longitude range (y = -270 and y = +90 degrees).
FocusPoints ==
    {Tbilisi, Facing, [lat |-> 0, lng |-> 80], [lat |-> 0, lng |-> 180],
     [lat |-> 0, lng |-> -180]}

Props ==
    [highlight : HighlightProps, connections : ConnectionsProps,
     magnetToFocus : BOOLEAN, focusPoint : FocusPoints]

\* clientX / clientY of the pointer events, in pixels.
Origin == [x |-> 0, y |-> 0]
Pointers == {Origin, [x |-> 1187, y |-> 30]}

\* --------------------------------------------------------- geometry setup

DefaultHlDotDensity == 1     \* hl.dotDensity ?? 0.20, in units

\* hlPolygons.length > 0, and then hPos.length > 0.
highlightDots(hl, countriesTopo) ==
    LET hlPolygons == getCountryPolygons(countriesTopo, hl.countryISO)
        hlBounds == IF hl.hasBounds THEN hl.bounds
                    ELSE computePolygonsMeta(hlPolygons)
        density == IF hl.hasDotDensity THEN hl.dotDensity ELSE DefaultHlDotDensity
    IN IF Len(hlPolygons) > 0
       THEN generateHighlightDots(hlPolygons, hlBounds, density)
       ELSE <<>>

\* The branch without its `hPos.length > 0` test.
highlightLayerCreatedUnchecked(hl, countriesTopo) ==
    Len(getCountryPolygons(countriesTopo, hl.countryISO)) > 0

highlightLayerCreated(hl, countriesTopo) ==
    Len(highlightDots(hl, countriesTopo)) > 0

\* The decision of the highlight branch for every highlight prop and every
\* countries document that can be read, evaluated once.
highlightLayerTable ==
    {<<h, c, highlightLayerCreated(highlightOf(h), Document(c))>> :
        h \in HighlightProps,
        c \in {d \in DocumentNames : ~readObjectsThrows(Document(d))}}

\* What the completion handler of loadTopoData() adds before it returns or throws.
thenResult(p, land, countries) ==
    LET hl == highlightOf(p.highlight)
    IN IF readObjectsThrows(Document(land))
       THEN [threw |-> TRUE, dots |-> 0, highlight |-> 0, arcs |-> 0]
       ELSE IF ~hl.isNull /\ readObjectsThrows(Document(countries))
       THEN [threw |-> TRUE, dots |-> 1, highlight |-> 0, arcs |-> 0]
       ELSE [threw |-> FALSE, dots |-> 1,
             highlight |-> IF ~hl.isNull
                              /\ <<p.highlight, countries, TRUE>> \in highlightLayerTable
                           THEN 1 ELSE 0,
             arcs |-> connectionCount(p.connections)]

\* ------------------------------------------------------------------ state

VARIABLES
    cachedLandTopo,       \* module-level cache slot: a document name
    cachedCountriesTopo,  \* module-level cache slot: a document name
    requests,             \* fetch() calls issued so far, per URL
    props,                \* the props the host renders the component with
    view,                 \* per run of the effect: "none", "live" or "torn"
    load,                 \* per view: its loadTopoData() call
    scene,                \* per view: what its globeGroup holds
    errors,               \* per view: console.error calls of its catch
    listeners,            \* views whose handlers are registered
    pendingFrames,        \* views with a requested animation frame
    timers,               \* pending setTimeout callbacks
    timerCount,           \* timers created so far
    isDraggingRef,
    magnetToFocusRef,
    dragTimeoutRef,       \* 0 (null) or the id of the last timer created
    frameIdRef,           \* 0 or the view that made the last frame request
    dotMaterialRef,       \* 0 (null) or the view that built the material
    hlMaterialRef,        \* 0 (null) or the view that built the material
    arcsRef,              \* one entry per arc: the view that pushed it
    endpointsRef,         \* one entry per endpoint: the view that pushed it
    targetWriter,         \* who wrote targetRotationRef last
    targetRotationRef,    \* the target rotation, [x, y]
    rotation,             \* globeGroup.rotation of the view built last, [x, y]
    previousMouseRef,     \* the pointer position remembered last, [x, y]
    pressAnchor,          \* the target and the pointer position at the press
    travel,               \* |dy| summed over the magnet frames since the press
    call,                 \* the last call of a decoder or classifier function
    polygonBoundsCache,   \* the WeakMap: bounds per ring that was classified
    uniforms,             \* per view: u_drag_time and u_is_dragging of its material
    sinceDragStart,       \* performance.now() - dragStartTimeRef.current, up to MaxDragMs
    pulses,               \* one entry per arc of arcsRef: its pulse
    pulseFrames,          \* frames that advanced a pulse, up to MaxPulseFrames
    gesture,              \* "none", "pressed" or "released", since the mount
    sinceRelease,         \* ms since the most recent release, up to CooldownMs
    ranTorn               \* kinds of callback that ran for a torn-down view

vars ==
    <<cachedLandTopo, cachedCountriesTopo, requests, props, view, load, scene,
      errors, listeners, pendingFrames, timers, timerCount,
      isDraggingRef, magnetToFocusRef, dragTimeoutRef, frameIdRef,
      dotMaterialRef, hlMaterialRef, arcsRef, endpointsRef, targetWriter,
      targetRotationRef, rotation, previousMouseRef, pressAnchor, travel, call,
      polygonBoundsCache, uniforms, sinceDragStart, pulses, pulseFrames,
      gesture, sinceRelease, ranTorn>>

cacheVars == <<cachedLandTopo, cachedCountriesTopo, requests>>
geometryVars ==
    <<scene, errors, dotMaterialRef, hlMaterialRef, arcsRef, endpointsRef,
      uniforms, pulses, pulseFrames>>
dragVars ==
    <<isDraggingRef, magnetToFocusRef, dragTimeoutRef, gesture, sinceRelease,
      sinceDragStart>>
callVars == <<call, polygonBoundsCache>>
timerVars == <<timers, timerCount>>
rotationVars ==
    <<targetRotationRef, rotation, previousMouseRef, pressAnchor, travel>>

\* focusRot of the effect.
focusRot == focusRotation(props.focusPoint.lat, props.focusPoint.lng)

NoAnchor ==
    [valid |-> FALSE, target |-> [x |-> 0, y |-> 0], displayed |-> [x |-> 0, y |-> 0],
     at |-> Origin]
NoTravel == [target |-> 0, display |-> 0]
NoCall ==
    [fn |-> "none", topology |-> EmptyDocument, arcIndexes |-> <<>>, name |-> "",
     point |-> <<0, 0>>, polygons |-> <<>>, threw |-> FALSE, result |-> <<>>,
     inside |-> FALSE, ring |-> 0,
     bounds |-> [minX |-> 0, maxX |-> 0, minY |-> 0, maxY |-> 0], cached |-> FALSE,
     rayCast |-> FALSE, step |-> 0, positions |-> <<>>, colors |-> <<>>,
     rndIds |-> <<>>, start |-> <<0, 0, 0>>, end |-> <<0, 0, 0>>]

\* Math.random() of the ten first arcs of a load, in units of 1/1000.
RandomTapes ==
    {<<0, 0, 0, 0, 0, 0, 0, 0, 0, 0>>,
     <<994, 999, 500, 0, 994, 999, 500, 0, 994, 999>>}

Views == 1..MaxViews

NoLoad ==
    [status |-> "none", land |-> "none", countries |-> "none",
     fromCache |-> FALSE, afterFailure |-> FALSE, afterTeardown |-> FALSE]
EmptyScene == [dots |-> 0, highlight |-> 0, arcs |-> 0]

Init ==
    /\ cachedLandTopo = "null"
    /\ cachedCountriesTopo = "null"
    /\ requests = [land |-> 0, countries |-> 0]
    /\ props \in Props
    /\ view = [v \in Views |-> "none"]
    /\ load = [v \in Views |-> NoLoad]
    /\ scene = [v \in Views |-> EmptyScene]
    /\ errors = [v \in Views |-> 0]
    /\ listeners = {}
    /\ pendingFrames = {}
    /\ timers = {}
    /\ timerCount = 0
    /\ isDraggingRef = FALSE
    /\ magnetToFocusRef = props.magnetToFocus
    /\ dragTimeoutRef = 0
    /\ frameIdRef = 0
    /\ dotMaterialRef = 0
    /\ hlMaterialRef = 0
    /\ arcsRef = <<>>
    /\ endpointsRef = <<>>
    /\ targetWriter = "mount"
    /\ targetRotationRef = focusRot
    /\ rotation = focusRot
    /\ previousMouseRef = Origin
    /\ pressAnchor = NoAnchor
    /\ travel = NoTravel
    /\ call = NoCall
    /\ polygonBoundsCache = <<>>
    /\ uniforms = [v \in Views |-> NewUniforms]
    /\ sinceDragStart = MaxDragMs
    /\ pulses = <<>>
    /\ pulseFrames = 0
    /\ gesture = "none"
    /\ sinceRelease = 0
    /\ ranTorn = {}

\* A settled promise whose reaction has not run yet: nothing but synchronous
\* work of the host (commits) can come before it.
microtaskQueued == \E v \in Views : load[v].status = "queued"

\* Callbacks of a view that run although the view was torn down.
noteRun(v, kind) ==
    ranTorn' = IF view[v] = "torn" THEN ranTorn \cup {kind} ELSE ranTorn

\* ----------------------------------------------------------- loadTopoData

\* The call: served from the cache when both slots are truthy, two requests
\* otherwise.
loadTopoData(v) ==
    LET failedBefore == \E u \in Views : load[u].status = "failed"
    IN IF truthy(cachedLandTopo) /\ truthy(cachedCountriesTopo)
       THEN /\ load' = [load EXCEPT ![v] =
                    [status |-> "queued", land |-> cachedLandTopo,
                     countries |-> cachedCountriesTopo, fromCache |-> TRUE,
                     afterFailure |-> failedBefore, afterTeardown |-> FALSE]]
            /\ requests' = requests
       ELSE /\ load' = [load EXCEPT ![v] =
                    [status |-> "fetching", land |-> "pending",
                     countries |-> "pending", fromCache |-> FALSE,
                     afterFailure |-> failedBefore, afterTeardown |-> FALSE]]
            /\ requests' = [land |-> requests.land + 1,
                            countries |-> requests.countries + 1]

\* .then(({ landTopo, countriesTopo }) => { ... }).catch(err => console.error(...))
\* for the load `l` of view v, which resolved with l.land and l.countries.
thenHandler(v, l) ==
    LET r == thenResult(props, l.land, l.countries)
    IN /\ load' = [load EXCEPT ![v] =
              [l EXCEPT !.status = IF r.threw THEN "failed" ELSE "done",
                        !.afterTeardown = (view[v] = "torn")]]
       /\ scene' = [scene EXCEPT ![v] =
              [dots |-> @.dots + r.dots, highlight |-> @.highlight + r.highlight,
               arcs |-> @.arcs + r.arcs]]
       /\ errors' = [errors EXCEPT ![v] = @ + (IF r.threw THEN 1 ELSE 0)]
       /\ dotMaterialRef' = IF r.dots > 0 THEN v ELSE dotMaterialRef
       /\ hlMaterialRef' = IF r.highlight > 0 THEN v ELSE hlMaterialRef
       /\ uniforms' = IF r.dots > 0 THEN [uniforms EXCEPT ![v] = NewUniforms]
                       ELSE uniforms
       /\ arcsRef' = arcsRef \o [i \in 1..r.arcs |-> v]
       /\ \E random \in RandomTapes :
              pulses' = pulses \o [i \in 1..r.arcs |-> newPulse(i - 1, random[i])]
       /\ endpointsRef' = endpointsRef \o [i \in 1..r.arcs |-> v]
       /\ pulseFrames' = pulseFrames

\* The reaction of a load that was served from the cache.
RunThen(v) ==
    /\ load[v].status = "queued"
    /\ thenHandler(v, load[v])
    /\ UNCHANGED <<cacheVars, props, view, listeners, pendingFrames, timerVars,
                   dragVars, frameIdRef, targetWriter, rotationVars, callVars,
                   ranTorn>>

LandOutcomes == {"land", "empty", "networkError", "unparseable"}
CountriesOutcomes == {"countries", "empty", "networkError", "unparseable"}
isDocument(x) == x \in DocumentNames

\* One of the two requests of a load settles.  With both resolved, Promise.all
\* resolves, the slots are written and the reaction runs, all before any other
\* task; the first rejection rejects the load and the catch logs it.
settle(v, l) ==
    IF load[v].status # "fetching"
    THEN /\ load' = [load EXCEPT ![v] =
                [@ EXCEPT !.land = IF @ = "pending" THEN "ignored" ELSE @,
                          !.countries = IF @ = "pending" THEN "ignored" ELSE @]]
         /\ UNCHANGED <<cacheVars, geometryVars>>
    ELSE IF l.land = "rejected" \/ l.countries = "rejected"
    THEN /\ load' = [load EXCEPT ![v] =
                [l EXCEPT !.status = "failed",
                          !.land = IF isDocument(@) THEN "ignored" ELSE @,
                          !.countries = IF isDocument(@) THEN "ignored" ELSE @,
                          !.afterTeardown = (view[v] = "torn")]]
         /\ errors' = [errors EXCEPT ![v] = @ + 1]
         /\ UNCHANGED <<cacheVars, scene, dotMaterialRef, hlMaterialRef,
                        arcsRef, endpointsRef, uniforms, pulses, pulseFrames>>
    ELSE IF isDocument(l.land) /\ isDocument(l.countries)
    THEN /\ cachedLandTopo' = l.land
         /\ cachedCountriesTopo' = l.countries
         /\ requests' = requests
         /\ thenHandler(v, l)
    ELSE /\ load' = [load EXCEPT ![v] = l]
         /\ UNCHANGED <<cacheVars, geometryVars>>

delivered(outcome) == IF isDocument(outcome) THEN outcome ELSE "rejected"

LandResponds(v, outcome) ==
    /\ ~microtaskQueued
    /\ load[v].land = "pending"
    /\ settle(v, [load[v] EXCEPT !.land = delivered(outcome)])
    /\ UNCHANGED <<props, view, listeners, pendingFrames, timerVars,
                   dragVars, frameIdRef, targetWriter, rotationVars, callVars,
                   ranTorn>>

CountriesResponds(v, outcome) ==
    /\ ~microtaskQueued
    /\ load[v].countries = "pending"
    /\ settle(v, [load[v] EXCEPT !.countries = delivered(outcome)])
    /\ UNCHANGED <<props, view, listeners, pendingFrames, timerVars,
                   dragVars, frameIdRef, targetWriter, rotationVars, callVars,
                   ranTorn>>

\* -------------------------------------------------------------- frame loop

\* The part of animate() that writes the target rotation: the magnet branch.
magnetBranch == magnetToFocusRef /\ ~isDraggingRef

\* Angular travel on the y axis, counted up to just over half a turn.
addTravel(sum, from, to) == Min2(Pi + 1, sum + Abs(to - from))

\* A requested frame of view v fires: animate() requests the next one first,
\* runs the magnet branch on the target rotation, eases the displayed rotation
\* towards the target, sets the drag uniforms of the dot material if there is
\* one, and advances the pulse of every arc.
Frame(v) ==
    /\ ~microtaskQueued
    /\ v \in pendingFrames
    /\ frameIdRef' = v
    /\ targetWriter' = IF magnetBranch THEN "magnet" ELSE targetWriter
    /\ targetRotationRef' = IF magnetBranch
                            THEN magnetStep(targetRotationRef, focusRot)
                            ELSE targetRotationRef
    /\ rotation' = easeDisplay(rotation, targetRotationRef')
    /\ travel' = IF magnetBranch
                 THEN [target |-> addTravel(travel.target, targetRotationRef.y,
                                            targetRotationRef'.y),
                       display |-> addTravel(travel.display, rotation.y,
                                             rotation'.y)]
                 ELSE travel
    /\ uniforms' = IF dotMaterialRef # 0
                    THEN [uniforms EXCEPT ![dotMaterialRef] =
                             dragUniforms(@, isDraggingRef, sinceDragStart)]
                    ELSE uniforms
    /\ pulses' = [i \in 1..Len(pulses) |-> advancePulse(pulses[i])]
    /\ pulseFrames' = IF Len(pulses) > 0 THEN Min2(MaxPulseFrames, pulseFrames + 1)
                       ELSE pulseFrames
    /\ noteRun(v, "frame")
    /\ UNCHANGED <<cacheVars, props, view, load, scene, errors, dotMaterialRef,
                   hlMaterialRef, arcsRef, endpointsRef, listeners,
                   pendingFrames, timerVars, dragVars, previousMouseRef,
                   pressAnchor, callVars>>

\* ------------------------------------------------------- effect and cleanup

\* The effect: scene, camera and renderer, the load, the listeners, and the
\* first animate() call.
Mount(v) ==
    /\ view[v] = "none"
    /\ \A u \in Views : (u < v) = (view[u] = "torn")
    /\ view' = [view EXCEPT ![v] = "live"]
    /\ magnetToFocusRef' = props.magnetToFocus
    /\ loadTopoData(v)
    /\ listeners' = listeners \cup {v}
    /\ frameIdRef' = v
    /\ pendingFrames' = pendingFrames \cup {v}
    /\ targetWriter' = IF props.magnetToFocus /\ ~isDraggingRef
                       THEN "magnet" ELSE "mount"
    /\ targetRotationRef' = focusRot
    /\ rotation' = focusRot
    /\ pressAnchor' = NoAnchor
    /\ travel' = NoTravel
    /\ gesture' = "none"
    /\ sinceRelease' = 0
    /\ UNCHANGED <<cachedLandTopo, cachedCountriesTopo, props, geometryVars,
                   timerVars, isDraggingRef, dragTimeoutRef, sinceDragStart,
                   previousMouseRef, callVars, ranTorn>>

clearTimeout(id) == {t \in timers : t.id # id}

\* The cleanup the effect returns.
Teardown(v) ==
    /\ view[v] = "live"
    /\ view' = [view EXCEPT ![v] = "torn"]
    /\ listeners' = listeners \ {v}
    /\ pendingFrames' = pendingFrames \ {frameIdRef}
    /\ timers' = clearTimeout(dragTimeoutRef)
    /\ arcsRef' = <<>>
    /\ pulses' = <<>>
    /\ endpointsRef' = <<>>
    /\ UNCHANGED <<cacheVars, props, load, scene, errors, dotMaterialRef,
                   hlMaterialRef, uniforms, pulseFrames, timerCount, dragVars,
                   frameIdRef,
                   targetWriter, rotationVars, callVars, ranTorn>>

\* ---------------------------------------------------------------- handlers

\* handleMouseDown, and handleTouchStart with one touch, the pointer at p.
press(p) ==
    /\ isDraggingRef' = TRUE
    /\ previousMouseRef' = p
    /\ magnetToFocusRef' = FALSE
    /\ sinceDragStart' = 0
    /\ timers' = clearTimeout(dragTimeoutRef)
    /\ gesture' = "pressed"
    /\ sinceRelease' = 0
    /\ pressAnchor' = [valid |-> TRUE, target |-> targetRotationRef,
                       displayed |-> rotation, at |-> p]
    /\ travel' = NoTravel
    /\ UNCHANGED <<dragTimeoutRef, timerCount>>

\* The handler without its setTimeout call.
releaseWithoutTimer(v) ==
    /\ isDraggingRef' = FALSE
    /\ gesture' = IF gesture = "none" THEN "none" ELSE "released"
    /\ sinceRelease' = 0
    /\ pressAnchor' = NoAnchor
    /\ UNCHANGED <<timers, timerCount, dragTimeoutRef, magnetToFocusRef,
                   sinceDragStart, previousMouseRef, travel>>

\* The handler that starts the cooldown whatever the configuration.
releaseAlwaysTimer(v) ==
    /\ isDraggingRef' = FALSE
    /\ timerCount < MaxTimers
    /\ timerCount' = timerCount + 1
    /\ timers' = timers \cup
           {[id |-> timerCount + 1, view |-> v, remaining |-> CooldownMs]}
    /\ dragTimeoutRef' = timerCount + 1
    /\ gesture' = IF gesture = "none" THEN "none" ELSE "released"
    /\ sinceRelease' = 0
    /\ pressAnchor' = NoAnchor
    /\ UNCHANGED <<magnetToFocusRef, sinceDragStart, previousMouseRef, travel>>

\* handleMouseUp and handleTouchEnd, for the view whose effect defined them.
release(v) ==
    /\ isDraggingRef' = FALSE
    /\ IF props.magnetToFocus
       THEN /\ timerCount < MaxTimers
            /\ timerCount' = timerCount + 1
            /\ timers' = timers \cup
                   {[id |-> timerCount + 1, view |-> v, remaining |-> CooldownMs]}
            /\ dragTimeoutRef' = timerCount + 1
       ELSE UNCHANGED <<timers, timerCount, dragTimeoutRef>>
    /\ gesture' = IF gesture = "none" THEN "none" ELSE "released"
    /\ sinceRelease' = 0
    /\ pressAnchor' = NoAnchor
    /\ UNCHANGED <<magnetToFocusRef, sinceDragStart, previousMouseRef, travel>>

\* The body with the two axes exchanged.
dragToSwappedAxes(p) ==
    /\ targetRotationRef' =
           [x |-> targetRotationRef.x + (p.x - previousMouseRef.x) * GainPerPixel,
            y |-> targetRotationRef.y + (p.y - previousMouseRef.y) * GainPerPixel]
    /\ previousMouseRef' = p

\* The body that measures every move from the zero position.
dragToFromZero(p) ==
    /\ targetRotationRef' =
           [x |-> targetRotationRef.x + p.y * GainPerPixel,
            y |-> targetRotationRef.y + p.x * GainPerPixel]
    /\ previousMouseRef' = p

\* The body of handleMouseMove, and of handleTouchMove with one touch, the
\* pointer at p.
dragTo(p) ==
    /\ targetRotationRef' =
           [x |-> targetRotationRef.x + (p.y - previousMouseRef.y) * GainPerPixel,
            y |-> targetRotationRef.y + (p.x - previousMouseRef.x) * GainPerPixel]
    /\ previousMouseRef' = p

\* handleMouseMove, and handleTouchMove with one touch.
move(p) ==
    /\ targetWriter' = IF isDraggingRef THEN "drag" ELSE targetWriter
    /\ IF isDraggingRef
       THEN dragTo(p)
       ELSE UNCHANGED <<targetRotationRef, previousMouseRef>>

handlerFrame == <<cacheVars, props, view, load, geometryVars, listeners,
                  pendingFrames, frameIdRef, rotation, callVars>>

MouseDown(v, p) ==
    /\ ~microtaskQueued
    /\ v \in listeners
    /\ press(p)
    /\ noteRun(v, "input")
    /\ UNCHANGED <<handlerFrame, targetWriter, targetRotationRef>>

MouseMove(v, p) ==
    /\ ~microtaskQueued
    /\ v \in listeners
    /\ move(p)
    /\ noteRun(v, "input")
    /\ UNCHANGED <<handlerFrame, dragVars, timerVars, pressAnchor, travel>>

MouseUp(v) ==
    /\ ~microtaskQueued
    /\ v \in listeners
    /\ release(v)
    /\ noteRun(v, "input")
    /\ UNCHANGED <<handlerFrame, targetWriter, targetRotationRef>>

\* mouseleave is bound to handleMouseUp.
MouseLeave(v) ==
    /\ ~microtaskQueued
    /\ v \in listeners
    /\ release(v)
    /\ noteRun(v, "input")
    /\ UNCHANGED <<handlerFrame, targetWriter, targetRotationRef>>

TouchCounts == {1, 2}

TouchStart(v, touches, p) ==
    /\ ~microtaskQueued
    /\ v \in listeners
    /\ IF touches = 1 THEN press(p)
       ELSE UNCHANGED <<dragVars, timerVars, previousMouseRef, pressAnchor, travel>>
    /\ noteRun(v, "input")
    /\ UNCHANGED <<handlerFrame, targetWriter, targetRotationRef>>

TouchMove(v, touches, p) ==
    /\ ~microtaskQueued
    /\ v \in listeners
    /\ IF touches = 1 THEN move(p)
       ELSE UNCHANGED <<targetWriter, targetRotationRef, previousMouseRef>>
    /\ noteRun(v, "input")
    /\ UNCHANGED <<handlerFrame, dragVars, timerVars, pressAnchor, travel>>

TouchEnd(v) ==
    /\ ~microtaskQueued
    /\ v \in listeners
    /\ release(v)
    /\ noteRun(v, "input")
    /\ UNCHANGED <<handlerFrame, targetWriter, targetRotationRef>>

\* handleResize, registered on the window by view v.
Resize(v) ==
    /\ ~microtaskQueued
    /\ v \in listeners
    /\ noteRun(v, "resize")
    /\ UNCHANGED <<cacheVars, props, view, load, geometryVars, listeners,
                   pendingFrames, timerVars, dragVars, frameIdRef, targetWriter,
                   rotationVars, callVars>>

\* ------------------------------------------------------------------ timers

\* () => { magnetToFocusRef.current = true; }, once its delay has passed.
TimerFires(t) ==
    /\ ~microtaskQueued
    /\ t \in timers
    /\ t.remaining = 0
    /\ magnetToFocusRef' = TRUE
    /\ timers' = timers \ {t}
    /\ noteRun(t.view, "timer")
    /\ UNCHANGED <<cacheVars, props, view, load, geometryVars, listeners,
                   pendingFrames, timerCount, isDraggingRef,
                   dragTimeoutRef, frameIdRef, targetWriter, rotationVars, callVars,
                   gesture, sinceRelease, sinceDragStart>>

\* TickMs of time pass: every timer is that much nearer, performance.now()
\* that much later.
elapse ==
    /\ timers' = {[t EXCEPT !.remaining = Max2(0, @ - TickMs)] : t \in timers}
    /\ sinceRelease' = IF gesture = "released"
                       THEN Min2(CooldownMs, sinceRelease + TickMs)
                       ELSE sinceRelease
    /\ sinceDragStart' = Min2(MaxDragMs, sinceDragStart + TickMs)
    /\ UNCHANGED <<cacheVars, props, view, load, geometryVars, listeners,
                   pendingFrames, timerCount, isDraggingRef,
                   magnetToFocusRef, dragTimeoutRef, frameIdRef, targetWriter,
                   rotationVars, callVars, gesture, ranTorn>>

\* Time passes while a timer is pending or a cooldown is running.
Tick ==
    /\ ~microtaskQueued
    /\ \/ \E t \in timers : t.remaining > 0
       \/ gesture = "released" /\ sinceRelease < CooldownMs
    /\ elapse

\* Time passes while a drag lasts.
DragTick ==
    /\ ~microtaskQueued
    /\ isDraggingRef
    /\ sinceDragStart < MaxDragMs
    /\ elapse

\* ------------------------------------------- decoder and classifier calls
\* The functions of the decoder and of the classifier, called on their own.

machineVars ==
    <<cacheVars, props, view, load, geometryVars, listeners, pendingFrames,
      timerVars, dragVars, frameIdRef, targetWriter, rotationVars, ranTorn>>

SeqsUpTo(S, n) == UNION {[1..k -> S] : k \in 1..n}

\* Arcs of one to MaxArcLen deltas; topologies of two arcs, with and without a
\* transform; rings of one to MaxRingArcs signed arc indexes.
Deltas == {<<1, 0>>, <<-1, 2>>}
ArcSet == SeqsUpTo(Deltas, MaxArcLen)
Transforms ==
    {[has |-> FALSE, scale |-> <<1, 1>>, translate |-> <<0, 0>>],
     [has |-> TRUE, scale |-> <<2, 3>>, translate |-> <<10, -5>>]}
ArcIndexes == {0, 1, -1, -2}
RingSet == SeqsUpTo(ArcIndexes, MaxRingArcs)

ArcsOnly(a0, a1, t) ==
    [isNull |-> FALSE, hasObjects |-> TRUE, objects |-> NoObjects,
     arcs |-> <<a0, a1>>, hasTransform |-> t.has, scale |-> t.scale,
     translate |-> t.translate]

ObjectNames == {"land", "countries", "rivers"}
CountryIds == {"268", "4", "999", ""}
GridPoints == {<<x, y>> : x \in {0, 150, 222, 300}, y \in {0, 150, 211, 300}}

\* A topology whose only object, `land`, is one square ring: one arc of four
\* corners, closed by repeating the first, delta-encoded.  sq.corner is the
\* lower-left corner and sq.side the side, both quantised.
squareArc(sq) ==
    IF sq.clockwise
    THEN <<sq.corner, <<0, sq.side>>, <<sq.side, 0>>, <<0, -sq.side>>, <<-sq.side, 0>>>>
    ELSE <<sq.corner, <<sq.side, 0>>, <<0, sq.side>>, <<-sq.side, 0>>, <<0, -sq.side>>>>

SquareDocument(sq) ==
    [isNull |-> FALSE, hasObjects |-> TRUE,
     objects |-> [n \in {"land"} |->
                    CASE sq.shape = "Polygon" -> Polygon(NoId, << <<0>> >>)
                      [] sq.shape = "MultiPolygon" -> MultiPolygon(NoId, << << <<0>> >> >>)
                      [] OTHER -> GeometryCollection(<<Polygon(NoId, << <<0>> >>)>>)],
     arcs |-> <<squareArc(sq)>>,
     hasTransform |-> sq.transform.has, scale |-> sq.transform.scale,
     translate |-> sq.transform.translate]

Squares ==
    [corner : {<<0, 0>>, <<-3, 4>>}, side : {2, 4}, clockwise : BOOLEAN,
     transform : Transforms, shape : {"Polygon", "MultiPolygon", "GeometryCollection"}]

\* The corner (0, 0) and the corner opposite to it of a square, through the
\* transform of its document.
squareLow(sq) ==
    IF sq.transform.has
    THEN <<sq.corner[1] * sq.transform.scale[1] + sq.transform.translate[1],
           sq.corner[2] * sq.transform.scale[2] + sq.transform.translate[2]>>
    ELSE sq.corner
squareHigh(sq) ==
    IF sq.transform.has
    THEN <<(sq.corner[1] + sq.side) * sq.transform.scale[1] + sq.transform.translate[1],
           (sq.corner[2] + sq.side) * sq.transform.scale[2] + sq.transform.translate[2]>>
    ELSE <<sq.corner[1] + sq.side, sq.corner[2] + sq.side>>

\* The points a square is probed with: its centroid, and a point ten sides away.
squareCentroid(sq) ==
    <<(squareLow(sq)[1] + squareHigh(sq)[1]) \div 2,
      (squareLow(sq)[2] + squareHigh(sq)[2]) \div 2>>
farOutside(sq) ==
    <<squareHigh(sq)[1] + 10 * (squareHigh(sq)[1] - squareLow(sq)[1]),
      squareCentroid(sq)[2]>>
Probes(sq) == {squareCentroid(sq), farOutside(sq)}

\* The land of the dot scans: one polygon covering [0,0]-[10,10] in degrees.
ScanFixture ==
    SquareDocument([corner |-> <<0, 0>>, side |-> 10, clockwise |-> FALSE,
                    transform |-> [has |-> TRUE, scale |-> <<UnitsPerDegree, UnitsPerDegree>>,
                                   translate |-> <<0, 0>>],
                    shape |-> "GeometryCollection"])
ScanTopologies == {ScanFixture, LandDocument, CountriesDocument}
\* dotDensity: 5 and 10 degrees.
ScanSteps == {5 * UnitsPerDegree, 10 * UnitsPerDegree}

\* A topology with rings of every length: arc 0 has three points, arc 1 two,
\* arc 2 five, arc 3 one; the ring <<1, -2>> stitches two points to two and
\* has three.
RingsDocument ==
    [isNull |-> FALSE, hasObjects |-> TRUE,
     objects |-> [n \in {"land", "countries"} |->
        IF n = "land"
        THEN GeometryCollection(<<
                 Polygon(NoId, << <<2>>, <<1>>, <<0>> >>),
                 MultiPolygon(NoId, << << <<3>>, <<0>> >>, << <<2>>, <<1>>, <<1, -2>> >> >>) >>)
        ELSE GeometryCollection(<<
                 Polygon([isString |-> TRUE, text |-> "268"], << <<1>>, <<2>> >>),
                 MultiPolygon([isString |-> FALSE, text |-> "4"],
                              << << <<0>>, <<3>> >>, << <<-3>> >> >>),
                 Polygon([isString |-> FALSE, text |-> "268"], << <<1, -2>>, <<3>> >>) >>)],
     arcs |-> << << <<0, 0>>, <<4, 0>>, <<0, 4>> >>,
                 << <<10, 10>>, <<2, 2>> >>,
                 << <<20, 20>>, <<6, 0>>, <<0, 6>>, <<-6, 0>>, <<0, -6>> >>,
                 << <<7, 7>> >> >>,
     hasTransform |-> FALSE, scale |-> <<1, 1>>, translate |-> <<0, 0>>]

\* The topologies the object decoders are called with; in the last one the
\* object is a geometry, not a collection.
Topologies ==
    {Document(d) : d \in DocumentNames} \cup
    {RingsDocument,
     SquareDocument([corner |-> <<0, 0>>, side |-> 2, clockwise |-> FALSE,
                     transform |-> [has |-> FALSE, scale |-> <<1, 1>>,
                                    translate |-> <<0, 0>>],
                     shape |-> "MultiPolygon"])}

arcToCoordsCall(topology, arcIndexes) ==
    /\ call = NoCall
    /\ call' = [NoCall EXCEPT !.fn = "arcToCoords", !.topology = topology,
                              !.arcIndexes = arcIndexes,
                              !.result = arcToCoords(topology, arcIndexes)]
    /\ UNCHANGED <<machineVars, polygonBoundsCache>>

topoJsonToPolygonsCall(topology, objectName) ==
    /\ call = NoCall
    /\ call' = [NoCall EXCEPT !.fn = "topoJsonToPolygons", !.topology = topology,
                              !.name = objectName,
                              !.threw = readObjectsThrows(topology),
                              !.result = IF readObjectsThrows(topology) THEN <<>>
                                         ELSE topoJsonToPolygons(topology, objectName)]
    /\ UNCHANGED <<machineVars, polygonBoundsCache>>

getCountryPolygonsCall(topology, countryId) ==
    /\ call = NoCall
    /\ call' = [NoCall EXCEPT !.fn = "getCountryPolygons", !.topology = topology,
                              !.name = countryId,
                              !.threw = readObjectsThrows(topology),
                              !.result = IF readObjectsThrows(topology) THEN <<>>
                                         ELSE getCountryPolygons(topology, countryId)]
    /\ UNCHANGED <<machineVars, polygonBoundsCache>>

pointInMultiPolygonCall(point, polygons) ==
    /\ call = NoCall
    /\ call' = [NoCall EXCEPT !.fn = "pointInMultiPolygon", !.point = point,
                              !.polygons = polygons,
                              !.inside = pointInMultiPolygon(point, polygons)]
    /\ UNCHANGED <<machineVars, polygonBoundsCache>>

\* topoJsonToPolygons on the land object and pointInMultiPolygon on what it
\* returned, as the geometry setup chains them.
classifyCall(topology, point) ==
    /\ call = NoCall
    /\ call' = [NoCall EXCEPT !.fn = "classify", !.topology = topology,
                              !.name = "land", !.point = point,
                              !.result = topoJsonToPolygons(topology, "land"),
                              !.inside = pointInMultiPolygon(
                                             point, topoJsonToPolygons(topology, "land"))]
    /\ UNCHANGED <<machineVars, polygonBoundsCache>>

\* topoJsonToPolygons on the land object and generateWorldDots on what it
\* returned, as the geometry setup chains them.
generateWorldDotsCall(topology, step) ==
    LET landPolygons == topoJsonToPolygons(topology, "land")
        dots == generateWorldDots(landPolygons, step)
    IN /\ call = NoCall
       /\ call' = [NoCall EXCEPT !.fn = "generateWorldDots", !.topology = topology,
                                 !.polygons = landPolygons, !.step = step,
                                 !.result = dots,
                                 !.positions = dotArrays(dots).positions,
                                 !.colors = dotArrays(dots).colors,
                                 !.rndIds = dotArrays(dots).rndIds]
       /\ UNCHANGED <<machineVars, polygonBoundsCache>>

\* The ring objects the classifier is called with on its own, each a different
\* array: the land rectangle, Georgia, a second array with Georgia's points, and
\* a triangle.  A ring is named by its place in the pool.
RingPool ==
    <<topoJsonToPolygons(LandDocument, "land")[1],
      getCountryPolygons(CountriesDocument, "268")[1],
      getCountryPolygons(CountriesDocument, "268")[1],
      <<<<0, 0>>, <<300, 0>>, <<0, 300>>, <<0, 0>>>>>>
Rings == 1..Len(RingPool)

\* A cache keyed by the number of points of the ring.
boundsKeyByLength(ring) == Len(RingPool[ring])

\* The key of a ring in polygonBoundsCache, a WeakMap: the array object itself.
boundsKey(ring) == ring

\* pointInPolygon(point, RingPool[ring]), with the getPolygonBounds it starts
\* with: the entry of the cache if the ring has one, and otherwise the bounds
\* it computes and stores.
pointInPolygonCall(point, ring) ==
    LET polygon == RingPool[ring]
        key == boundsKey(ring)
        hit == key \in DOMAIN polygonBoundsCache
        bounds == IF hit THEN polygonBoundsCache[key] ELSE getPolygonBounds(polygon)
    IN /\ polygonBoundsCache' =
              [k \in DOMAIN polygonBoundsCache \cup {key} |->
                  IF k = key THEN bounds ELSE polygonBoundsCache[k]]
       /\ call' = [NoCall EXCEPT !.fn = "pointInPolygon", !.point = point,
                                 !.ring = ring, !.bounds = bounds, !.cached = hit,
                                 !.rayCast = ~outsideBounds(point, bounds),
                                 !.inside = pointInPolygonWithin(point, polygon, bounds)]
       /\ UNCHANGED machineVars

\* Points of the sphere of radius GlobeRadius: the six on the axes and six more,
\* with two pairs of antipodes among the latter.
ArcPoints ==
    {<<1000, 0, 0>>, <<-1000, 0, 0>>, <<0, 1000, 0>>, <<0, -1000, 0>>,
     <<0, 0, 1000>>, <<0, 0, -1000>>, <<600, 800, 0>>, <<-600, -800, 0>>,
     <<0, 280, 960>>, <<0, -280, -960>>, <<360, 480, 800>>, <<640, 480, 600>>}

createArcCall(start, end) ==
    /\ call = NoCall
    /\ call' = [NoCall EXCEPT !.fn = "createArc", !.start = start, !.end = end,
                              !.result = createArc(start, end, GlobeRadius)]
    /\ UNCHANGED <<machineVars, polygonBoundsCache>>

\* The polygon lists the classifier is called with: of a name or an identifier
\* the document has, and of one it does not have.
PolygonLists ==
    {topoJsonToPolygons(LandDocument, "land"),
     topoJsonToPolygons(LandDocument, "rivers"),
     getCountryPolygons(CountriesDocument, "268"),
     getCountryPolygons(CountriesDocument, "999")}

\* ------------------------------------------------------------ specification

Next ==
    \/ \E v \in Views : Mount(v)
    \/ \E v \in Views : Teardown(v)
    \/ \E v \in Views : RunThen(v)
    \/ \E v \in Views, outcome \in LandOutcomes : LandResponds(v, outcome)
    \/ \E v \in Views, outcome \in CountriesOutcomes : CountriesResponds(v, outcome)
    \/ \E v \in Views : Frame(v)
    \/ \E v \in Views, p \in Pointers : MouseDown(v, p)
    \/ \E v \in Views, p \in Pointers : MouseMove(v, p)
    \/ \E v \in Views : MouseUp(v)
    \/ \E v \in Views : MouseLeave(v)
    \/ \E v \in Views, touches \in TouchCounts, p \in Pointers : TouchStart(v, touches, p)
    \/ \E v \in Views, touches \in TouchCounts, p \in Pointers : TouchMove(v, touches, p)
    \/ \E v \in Views : TouchEnd(v)
    \/ \E v \in Views : Resize(v)
    \/ \E t \in timers : TimerFires(t)
    \/ Tick
    \/ DragTick
    \/ \E a0 \in ArcSet, a1 \in ArcSet, t \in Transforms, ring \in RingSet :
           arcToCoordsCall(ArcsOnly(a0, a1, t), ring)
    \/ \E topology \in Topologies, n \in ObjectNames :
           topoJsonToPolygonsCall(topology, n)
    \/ \E topology \in Topologies, id \in CountryIds :
           getCountryPolygonsCall(topology, id)
    \/ \E point \in GridPoints, polygons \in PolygonLists :
           pointInMultiPolygonCall(point, polygons)
    \/ \E sq \in Squares : \E point \in Probes(sq) :
           classifyCall(SquareDocument(sq), point)
    \/ \E topology \in ScanTopologies, step \in ScanSteps :
           generateWorldDotsCall(topology, step)
    \/ \E point \in GridPoints, ring \in Rings : pointInPolygonCall(point, ring)
    \/ \E start \in ArcPoints, end \in ArcPoints : createArcCall(start, end)

Spec == Init /\ [][Next]_vars

\* The same component while the pointer stays away: mounts, teardowns, the two
\* requests and the frames.
InitLoad == Init /\ props.magnetToFocus /\ props.focusPoint = Facing

NextLoad ==
    \/ \E v \in Views : Mount(v)
    \/ \E v \in Views : Teardown(v)
    \/ \E v \in Views : RunThen(v)
    \/ \E v \in Views, outcome \in LandOutcomes : LandResponds(v, outcome)
    \/ \E v \in Views, outcome \in CountriesOutcomes : CountriesResponds(v, outcome)
    \/ \E v \in Views : pulseFrames < MaxLoadFrames /\ Frame(v)

SpecLoad == InitLoad /\ [][NextLoad]_vars

\* The same component while the network stays silent and the pointer is pressed
\* and released in one place: mounts, teardowns, input, timers, frames and the
\* passage of time.
InitDrag ==
    /\ Init
    /\ props.highlight = "omitted"
    /\ props.connections = "omitted"
    /\ props.focusPoint = Facing

NextDrag ==
    \/ \E v \in Views : Mount(v)
    \/ \E v \in Views : Teardown(v)
    \/ \E v \in Views : Frame(v)
    \/ \E v \in Views : MouseDown(v, Origin)
    \/ \E v \in Views : MouseMove(v, Origin)
    \/ \E v \in Views : MouseUp(v)
    \/ \E v \in Views : MouseLeave(v)
    \/ \E v \in Views, touches \in TouchCounts : TouchStart(v, touches, Origin)
    \/ \E v \in Views, touches \in TouchCounts : TouchMove(v, touches, Origin)
    \/ \E v \in Views : TouchEnd(v)
    \/ \E v \in Views : Resize(v)
    \/ \E t \in timers : TimerFires(t)
    \/ Tick

SpecDrag == InitDrag /\ [][NextDrag]_vars

\* SpecDrag with time that passes and timers that fire.
SpecDragLive ==
    /\ SpecDrag
    /\ WF_vars(Tick)
    /\ WF_vars(\E t \in timers : TimerFires(t))

\* The same component while it stays mounted, the network stays silent and the
\* pointer drags the globe.  The pointer is pressed and released while the globe
\* is at rest; during a drag it moves, any number of times, before the first
\* frame that follows the press; and it stays within MaxTilt of the focus on
\* the x axis and within MaxAngle of zero on the y axis.
atRest ==
    LET target == IF magnetBranch THEN magnetStep(targetRotationRef, focusRot)
                  ELSE targetRotationRef
    IN /\ target = targetRotationRef
       /\ easeDisplay(rotation, target) = rotation

beforeFirstFrame == pressAnchor.valid /\ rotation = pressAnchor.displayed

inReach(p) ==
    /\ Abs(targetRotationRef.x + (p.y - previousMouseRef.y) * GainPerPixel - focusRot.x)
           <= MaxTilt
    /\ Abs(targetRotationRef.y + (p.x - previousMouseRef.x) * GainPerPixel) <= MaxAngle

InitTurn ==
    /\ Init
    /\ props.highlight = "omitted"
    /\ props.connections = "omitted"
    /\ props.focusPoint # Facing
    /\ props.magnetToFocus \/ props.focusPoint = Tbilisi

NextTurn ==
    \/ \E v \in Views : Mount(v)
    \/ \E v \in Views : Frame(v)
    \/ \E v \in Views, p \in Pointers : atRest /\ MouseDown(v, p)
    \/ \E v \in Views, p \in Pointers :
           (beforeFirstFrame \/ ~isDraggingRef) /\ inReach(p) /\ MouseMove(v, p)
    \/ \E v \in Views : atRest /\ MouseUp(v)
    \/ \E v \in Views, touches \in TouchCounts, p \in Pointers :
           atRest /\ TouchStart(v, touches, p)
    \/ \E v \in Views, touches \in TouchCounts, p \in Pointers :
           (beforeFirstFrame \/ ~isDraggingRef) /\ inReach(p) /\ TouchMove(v, touches, p)
    \/ \E v \in Views : atRest /\ TouchEnd(v)
    \/ \E t \in timers : TimerFires(t)
    \/ Tick

SpecTurn == InitTurn /\ [][NextTurn]_vars

\* SpecTurn with the frame callback that keeps running.
SpecTurnLive == SpecTurn /\ WF_vars(\E v \in Views : Frame(v))

\* The decoder, the classifier and the world dot scan on their own.
InitDecode ==
    /\ Init
    /\ props = [highlight |-> "omitted", connections |-> "omitted",
                magnetToFocus |-> TRUE, focusPoint |-> Tbilisi]

NextDecode ==
    \/ \E a0 \in ArcSet, a1 \in ArcSet, t \in Transforms, ring \in RingSet :
           arcToCoordsCall(ArcsOnly(a0, a1, t), ring)
    \/ \E topology \in Topologies, n \in ObjectNames :
           topoJsonToPolygonsCall(topology, n)
    \/ \E topology \in Topologies, id \in CountryIds :
           getCountryPolygonsCall(topology, id)
    \/ \E point \in GridPoints, polygons \in PolygonLists :
           pointInMultiPolygonCall(point, polygons)
    \/ \E sq \in Squares : \E point \in Probes(sq) :
           classifyCall(SquareDocument(sq), point)
    \/ \E topology \in ScanTopologies, step \in ScanSteps :
           generateWorldDotsCall(topology, step)

SpecDecode == InitDecode /\ [][NextDecode]_vars

\* pointInPolygon on its own, call after call, against the cache the earlier
\* calls left.
NextClassify ==
    \E point \in GridPoints, ring \in Rings : pointInPolygonCall(point, ring)

SpecClassify == InitDecode /\ [][NextClassify]_vars

\* One mounted view whose two documents arrive, with presses and releases in
\* one place, frames and the passage of time.
InitShimmer ==
    /\ Init
    /\ props.highlight = "omitted"
    /\ props.connections = "one"
    /\ props.focusPoint = Facing

NextShimmer ==
    \/ \E v \in Views : Mount(v)
    \/ \E v \in Views : LandResponds(v, "land")
    \/ \E v \in Views : CountriesResponds(v, "countries")
    \/ \E v \in Views : pulseFrames < MaxShimmerFrames /\ Frame(v)
    \/ \E v \in Views : MouseDown(v, Origin)
    \/ \E v \in Views : MouseUp(v)
    \/ \E t \in timers : TimerFires(t)
    \/ Tick
    \/ DragTick

SpecShimmer == InitShimmer /\ [][NextShimmer]_vars

\* SpecLoad with servers that can also answer with the JSON text null, which
\* r.json() parses to null.
NextCache ==
    \/ \E v \in Views : Mount(v)
    \/ \E v \in Views : Teardown(v)
    \/ \E v \in Views : RunThen(v)
    \/ \E v \in Views, outcome \in LandOutcomes \cup {"null"} :
           LandResponds(v, outcome)
    \/ \E v \in Views, outcome \in CountriesOutcomes \cup {"null"} :
           CountriesResponds(v, outcome)
    \/ \E v \in Views : pulseFrames < MaxLoadFrames /\ Frame(v)

SpecCache == InitLoad /\ [][NextCache]_vars

\* One mounted view whose two documents arrive, and its frames.
InitPulse ==
    /\ Init
    /\ props.highlight = "omitted"
    /\ props.focusPoint = Facing
    /\ props.magnetToFocus

NextPulse ==
    \/ \E v \in Views : Mount(v)
    \/ \E v \in Views : LandResponds(v, "land")
    \/ \E v \in Views : CountriesResponds(v, "countries")
    \/ \E v \in Views : pulseFrames < MaxPulseFrames /\ Frame(v)

SpecPulse == InitPulse /\ [][NextPulse]_vars

\* createArc on its own.
NextArc == \E start \in ArcPoints, end \in ArcPoints : createArcCall(start, end)

SpecArc == InitDecode /\ [][NextArc]_vars

\* ------------------------------------------------------------------ claims

\* C1: while a drag is active, from a press until the next release, the
\* magnet-return flag is false.
C1_MagnetOffWhileDragging ==
    gesture = "pressed" => ~magnetToFocusRef

\* C2: after a release that follows a press, magnet-return is not active before
\* 1.5 s have passed since the most recent release.
C2_MagnetWaitsForCooldown ==
    (gesture = "released" /\ magnetToFocusRef) => sinceRelease >= CooldownMs

\* C3: no frame callback, timer callback, input handler or resize handler of a
\* view runs after the view was torn down.
C3_NothingRunsAfterTeardown ==
    ranTorn = {}

viewsOf(entries) == {entries[i] : i \in 1..Len(entries)}

\* C4: a load that settles after its view was torn down adds nothing to the
\* scene of that view and writes none of the four references.
C4_TornViewUntouched ==
    \A v \in Views :
        load[v].afterTeardown =>
            /\ scene[v] = EmptyScene
            /\ dotMaterialRef # v
            /\ hlMaterialRef # v
            /\ v \notin viewsOf(arcsRef)
            /\ v \notin viewsOf(endpointsRef)

\* C5: as long as no request has failed, each of the two documents was requested
\* at most once.
C5_EachDocumentRequestedOnce ==
    (\A v \in Views : load[v].land # "rejected" /\ load[v].countries # "rejected")
        => (requests.land <= 1 /\ requests.countries <= 1)

\* C6: with the highlight prop omitted, no view ever gets a highlight layer and
\* the highlight-material reference stays empty.
C6_NoHighlightWhenOmitted ==
    props.highlight = "omitted" =>
        /\ hlMaterialRef = 0
        /\ \A v \in Views : scene[v].highlight = 0

fetchingLoads == {v \in Views : load[v].status # "none" /\ ~load[v].fromCache}

\* C7: a load that failed (a rejected request or a malformed document) is logged
\* once, leaves the scene of its view without dot layer, highlight layer and arcs,
\* is not retried, and leaves the frame loop and the handlers of a live view in
\* place.
C7_FailureSkipsAllGeometry ==
    \A v \in Views :
        load[v].status = "failed" =>
            /\ errors[v] = 1
            /\ scene[v] = EmptyScene
            /\ requests.land = Cardinality(fetchingLoads)
            /\ requests.countries = Cardinality(fetchingLoads)
            /\ view[v] = "live" => (v \in pendingFrames /\ v \in listeners)

fullGeometry(v) ==
    /\ load[v].status = "done"
    /\ scene[v].dots = 1
    /\ scene[v].arcs = connectionCount(props.connections)

\* C8: a view mounted after a data-source failure gets its full geometry, unless
\* a request of its own load fails or delivers a document that is not a topology.
C8_RemountRecovers ==
    \A v \in Views :
        ( /\ load[v].afterFailure
          /\ load[v].status \in {"done", "failed"}
          /\ \/ load[v].fromCache
             \/ load[v].land = "land" /\ load[v].countries = "countries" )
        => fullGeometry(v)

\* Whether the requested country matches a polygon, and whether the scan emits a
\* dot, for every highlight prop and every countries document that can be read.
C9_Scans ==
    {<<h, c, Len(getCountryPolygons(Document(c), highlightOf(h).countryISO)) > 0,
             Len(highlightDots(highlightOf(h), Document(c))) > 0>> :
        h \in HighlightProps,
        c \in {d \in DocumentNames : ~readObjectsThrows(Document(d))}}

\* C9: where geometry setup ran with a highlight spec, the view has a highlight
\* layer exactly if the country matched a polygon and the scan emitted a dot;
\* without one, no error was logged, the highlight-material reference was not
\* written, and the world dots and every arc triple are there.
C9_HighlightLayerOnlyWithDots ==
    \A v \in Views :
        (load[v].status = "done" /\ ~highlightOf(props.highlight).isNull) =>
            LET hit == <<props.highlight, load[v].countries, TRUE, TRUE>> \in C9_Scans
            IN /\ scene[v].highlight = (IF hit THEN 1 ELSE 0)
               /\ ~hit => /\ errors[v] = 0
                          /\ hlMaterialRef # v
                          /\ scene[v].dots = 1
                          /\ scene[v].arcs = connectionCount(props.connections)

\* C9, its case: setup ran for a country that matches nothing, or for a scan
\* that emits nothing, and the view has its dots and arcs and no highlight layer.
C9_Witness ==
    \E v \in Views :
        /\ load[v].status = "done"
        /\ props.highlight \in {"miss", "emptyScan"}
        /\ scene[v] = [dots |-> 1, highlight |-> 0,
                       arcs |-> connectionCount(props.connections)]

\* C10: once geometry setup has completed for a mounted view, the arc list and
\* the endpoint list hold one entry per configured connection.
C10_OneEntryPerConnection ==
    \A v \in Views :
        (view[v] = "live" /\ load[v].status = "done") =>
            /\ Len(arcsRef) = connectionCount(props.connections)
            /\ Len(endpointsRef) = connectionCount(props.connections)

\* C11: from the frame in which magnet-return becomes active, with no further
\* input, neither the target y-angle nor the displayed y-angle travels more than
\* half a turn.
C11_NeverTheLongWay ==
    travel.target <= Pi /\ travel.display <= Pi

\* The angle in -Pi .. Pi - 1 that differs from `angle` by whole turns.
wrapped(angle) == ((angle + Pi) % TwoPi) - Pi

\* The values in -Pi .. Pi that differ from (focus y - target y) by whole turns.
shortestTurns(targetY, focusY) ==
    LET d == wrapped(focusY - targetY)
    IN IF d = -Pi THEN {-Pi, Pi} ELSE {d}

anyMagnetFrame == magnetBranch /\ \E v \in Views : Frame(v)

\* C12: a frame with magnet-return active and no drag advances the target
\* y-angle by 9% of d, where d is the difference (focus y - target y) taken
\* within [-pi, pi]; the frame that snaps leaves the target at the focus.
C12_MagnetStepIsShortest ==
    [][anyMagnetFrame =>
          \E d \in shortestTurns(targetRotationRef.y, focusRot.y) :
              \/ targetRotationRef'.y = targetRotationRef.y + mulRate(d, MagnetRate)
              \/ Abs(d) < SnapThreshold /\ targetRotationRef' = focusRot]_vars

\* C12, its case: the focus at -170 degrees (-2967), the target dragged to 170
\* degrees (2968), and one magnet frame later the target 1.8 degrees (31)
\* further on, towards the wraparound.
C12_Witness ==
    /\ props.focusPoint = [lat |-> 0, lng |-> 80]
    /\ magnetBranch
    /\ targetRotationRef.y = 2968 + 31

anyViewLive == \E v \in Views : view[v] = "live"

\* C13: with magnet-return enabled, a release that follows a press leads to the
\* magnet-return flag being true, unless a press or a teardown comes first; and
\* the flag, once true, goes back to false only with a press.
C13_MagnetComesBack ==
    /\ (props.magnetToFocus /\ gesture = "released" /\ anyViewLive)
           ~> (magnetToFocusRef \/ gesture # "released" \/ ~anyViewLive)
    /\ [][(magnetToFocusRef /\ ~magnetToFocusRef') => gesture' = "pressed"]_vars

\* C13, its case: a press and a release, the cooldown over and the flag true.
C13_Witness ==
    /\ gesture = "released"
    /\ sinceRelease = CooldownMs
    /\ magnetToFocusRef
    /\ timers = {}

\* The distance from a target rotation to the focus rotation: on x the absolute
\* difference, on y the distance modulo a full turn.
focusDistance(target) ==
    [x |-> Abs(focusRot.x - target.x), y |-> Abs(wrapped(focusRot.y - target.y))]

\* C14: a frame with magnet-return active and no drag increases the distance to
\* the focus on neither axis, and decreases the distance unless it is zero.
C14_MagnetDistanceDecreases ==
    [][anyMagnetFrame =>
          LET before == focusDistance(targetRotationRef)
              after == focusDistance(targetRotationRef')
          IN /\ after.x <= before.x
             /\ after.y <= before.y
             /\ before.x + before.y > 0 => after.x + after.y < before.x + before.y]_vars

\* C14, its case: magnet frames have moved the target and it is still away from
\* the focus on both axes.
C14_Witness ==
    /\ magnetBranch
    /\ travel.target > 0
    /\ focusDistance(targetRotationRef).x > 0
    /\ focusDistance(targetRotationRef).y > 0

\* C15: with magnet-return active the target rotation reaches the focus angles
\* exactly, unless a press comes first; a magnet frame that finds it there leaves
\* it there; and the frame that puts it there is one where the x distance left
\* by the x step and the wrapped y difference are both below 0.01 rad.
C15_SnapsToFocus ==
    /\ (magnetToFocusRef /\ ~isDraggingRef /\ anyViewLive)
           ~> (targetRotationRef = focusRot \/ isDraggingRef \/ ~magnetToFocusRef)
    /\ [][anyMagnetFrame =>
             /\ targetRotationRef = focusRot => targetRotationRef' = focusRot
             /\ (targetRotationRef # focusRot /\ targetRotationRef' = focusRot) =>
                    LET x == targetRotationRef.x
                                 + mulRate(focusRot.x - targetRotationRef.x, MagnetRate)
                    IN /\ Abs(focusRot.x - x) < SnapThreshold
                       /\ focusDistance(targetRotationRef).y < SnapThreshold]_vars

\* C15, its case: magnet frames have moved the target and it is at the focus.
C15_Witness ==
    /\ magnetBranch
    /\ travel.target > 0
    /\ targetRotationRef = focusRot

between(a, b, c) == (a <= b /\ b <= c) \/ (c <= b /\ b <= a)

\* C16: every frame moves each displayed angle by 8% of its distance to the
\* target angle of that frame, and leaves it between its previous value and the
\* target.
C16_DisplayEasesToTarget ==
    [][\A v \in Views : Frame(v) =>
          /\ rotation'.x = rotation.x
                 + mulRate(targetRotationRef'.x - rotation.x, DisplayRate)
          /\ rotation'.y = rotation.y
                 + mulRate(targetRotationRef'.y - rotation.y, DisplayRate)
          /\ between(rotation.x, rotation'.x, targetRotationRef'.x)
          /\ between(rotation.y, rotation'.y, targetRotationRef'.y)]_vars

\* C16, its case: during a drag, frames have moved the displayed rotation on
\* both axes and it is not at the target yet.
C16_Witness ==
    /\ isDraggingRef
    /\ pressAnchor.valid
    /\ rotation.x # pressAnchor.displayed.x
    /\ rotation.y # pressAnchor.displayed.y
    /\ rotation # targetRotationRef

anyMove(p) ==
    \E v \in Views : MouseMove(v, p) \/ TouchMove(v, 1, p)

\* C17: a move event during a drag adds 0.005 rad per pixel of the horizontal
\* delta to the target y-angle and of the vertical delta to the target x-angle
\* and leaves the displayed rotation, the magnet flag and the timers alone; a
\* move event outside a drag leaves the target rotation, the displayed rotation
\* and the remembered pointer position alone.
C17_MoveWritesTargetOnly ==
    [][\A p \in Pointers : anyMove(p) =>
          IF isDraggingRef
          THEN /\ targetRotationRef'.y = targetRotationRef.y
                      + GainPerPixel * (p.x - previousMouseRef.x)
               /\ targetRotationRef'.x = targetRotationRef.x
                      + GainPerPixel * (p.y - previousMouseRef.y)
               /\ rotation' = rotation
               /\ magnetToFocusRef' = magnetToFocusRef
               /\ timers' = timers
          ELSE /\ targetRotationRef' = targetRotationRef
               /\ rotation' = rotation
               /\ previousMouseRef' = previousMouseRef]_vars

\* C17, its case: a drag whose moves have taken the pointer away from where it
\* was pressed, and the target with it on both axes.
C17_Witness ==
    /\ isDraggingRef
    /\ pressAnchor.valid
    /\ previousMouseRef # pressAnchor.at
    /\ targetRotationRef.x # pressAnchor.target.x
    /\ targetRotationRef.y # pressAnchor.target.y

\* C18: during a drag the target rotation is the target at the press plus 0.005
\* rad per pixel of (last pointer position - press position), whatever the
\* number of move events and the path they took.
C18_TargetFollowsLastPosition ==
    (isDraggingRef /\ pressAnchor.valid) =>
        /\ targetRotationRef.y = pressAnchor.target.y
               + GainPerPixel * (previousMouseRef.x - pressAnchor.at.x)
        /\ targetRotationRef.x = pressAnchor.target.x
               + GainPerPixel * (previousMouseRef.y - pressAnchor.at.y)

\* C18, its case: a frame has run in a drag whose pointer is away from where it
\* was pressed.
C18_Witness ==
    /\ isDraggingRef
    /\ pressAnchor.valid
    /\ previousMouseRef # pressAnchor.at
    /\ rotation # pressAnchor.displayed

\* The sum of component c of the first j deltas of an arc.
RECURSIVE deltaSum(_, _, _)
deltaSum(arc, j, c) == IF j = 0 THEN 0 ELSE arc[j][c] + deltaSum(arc, j - 1, c)

\* The points of the arc a signed index refers to, in the order the index asks for.
referencedArc(topology, k) ==
    LET arc == topology.arcs[(IF k < 0 THEN -k - 1 ELSE k) + 1]
        n == Len(arc)
        at(j) == LET x == deltaSum(arc, j, 1)
                     y == deltaSum(arc, j, 2)
                 IN IF topology.hasTransform
                    THEN <<x * topology.scale[1] + topology.translate[1],
                           y * topology.scale[2] + topology.translate[2]>>
                    ELSE <<x, y>>
    IN [j \in 1..n |-> at(IF k < 0 THEN n + 1 - j ELSE j)]

\* The first arc whole, every later arc without its first point.
referenceDecoder(topology, arcIndexes) ==
    Flatten([i \in 1..Len(arcIndexes) |->
                IF i = 1 THEN referencedArc(topology, arcIndexes[i])
                ELSE Tail(referencedArc(topology, arcIndexes[i]))])

RECURSIVE stitchedLength(_, _)
stitchedLength(topology, arcIndexes) ==
    IF arcIndexes = <<>> THEN 0
    ELSE Len(referencedArc(topology, Head(arcIndexes))) - 1
             + stitchedLength(topology, Tail(arcIndexes))

\* C19: arcToCoords returns what the reference decoder returns: per arc the
\* running sums of its deltas from (0, 0), through the transform if there is one,
\* reversed for a negative index, every arc after the first without its first
\* point; L1 + (L2 - 1) + ... + (Ln - 1) points in all.
C19_DecoderMatchesReference ==
    call.fn = "arcToCoords" =>
        /\ call.result = referenceDecoder(call.topology, call.arcIndexes)
        /\ Len(call.result) = 1 + stitchedLength(call.topology, call.arcIndexes)

\* C19, its case: a ring of two arcs, the second one reversed, decoded through a
\* transform.
C19_Witness ==
    /\ call.fn = "arcToCoords"
    /\ Len(call.arcIndexes) = 2
    /\ call.arcIndexes[2] < 0
    /\ call.topology.hasTransform
    /\ Len(call.result) = 3

\* No geometry of the document's countries carries the identifier.
unmatched(topology, countryId) ==
    \/ "countries" \notin DOMAIN topology.objects
    \/ \A i \in 1..Len(topology.objects["countries"].geometries) :
           topology.objects["countries"].geometries[i].id.text # countryId

\* C20: on a document with objects, topoJsonToPolygons with a name the document
\* does not have and getCountryPolygons with an identifier no geometry carries
\* return the empty list and raise nothing; pointInMultiPolygon against the empty
\* list is false.
C20_MissesAreEmpty ==
    /\ ( /\ call.fn = "topoJsonToPolygons"
         /\ call.topology.hasObjects
         /\ call.name \notin DOMAIN call.topology.objects )
           => (~call.threw /\ call.result = <<>>)
    /\ ( /\ call.fn = "getCountryPolygons"
         /\ call.topology.hasObjects
         /\ unmatched(call.topology, call.name) )
           => (~call.threw /\ call.result = <<>>)
    /\ (call.fn = "pointInMultiPolygon" /\ call.polygons = <<>>) => ~call.inside

\* C20, its case: the countries document asked for a country it does not have.
C20_Witness ==
    /\ call.fn = "getCountryPolygons"
    /\ call.name = "999"
    /\ "countries" \in DOMAIN call.topology.objects
    /\ call.result = <<>>
    /\ ~call.threw

\* The least and the greatest of a non-empty set of numbers.
least(S) == CHOOSE m \in S : \A n \in S : m <= n
greatest(S) == CHOOSE m \in S : \A n \in S : m >= n

\* The min/max extents of a ring.
extents(polygon) ==
    LET xs == {polygon[i][1] : i \in 1..Len(polygon)}
        ys == {polygon[i][2] : i \in 1..Len(polygon)}
    IN [minX |-> least(xs), maxX |-> greatest(xs),
        minY |-> least(ys), maxY |-> greatest(ys)]

strictlyOutside(point, box) ==
    \/ point[1] < box.minX
    \/ point[1] > box.maxX
    \/ point[2] < box.minY
    \/ point[2] > box.maxY

\* C21: pointInPolygon uses the min/max extents of the ring as its bounding box,
\* on the call that computes them and on every later call that takes them from
\* the cache, and for a point strictly outside that box it returns false and
\* the ray-casting loop does not run.
C21_BoundsRejectAndCache ==
    /\ \A ring \in Rings :
           boundsKey(ring) \in DOMAIN polygonBoundsCache =>
               polygonBoundsCache[boundsKey(ring)] = extents(RingPool[ring])
    /\ call.fn = "pointInPolygon" =>
           /\ call.bounds = extents(RingPool[call.ring])
           /\ strictlyOutside(call.point, extents(RingPool[call.ring])) =>
                  (~call.rayCast /\ ~call.inside)

\* C21, its case: with two other rings in the cache, a later call for the land
\* rectangle took its box from the cache and rejected a point outside it.
C21_Witness ==
    /\ call.fn = "pointInPolygon"
    /\ call.ring = 1
    /\ call.cached
    /\ Cardinality(DOMAIN polygonBoundsCache) >= 3
    /\ strictlyOutside(call.point, extents(RingPool[1]))
    /\ ~call.rayCast

\* The grid of the world scan: lat = -85 + i * step up to 85, lng = -180 + j * step
\* below 180, as <<lng, lat>> in units.
scanGrid(step) ==
    {<<-180 * UnitsPerDegree + j * step, -85 * UnitsPerDegree + i * step>> :
        j \in 0..((360 * UnitsPerDegree - 1) \div step),
        i \in 0..((170 * UnitsPerDegree) \div step)}

emitted == {call.result[k] : k \in 1..Len(call.result)}

\* One dot per grid point the classifier accepts, none for another point, and
\* three positions, three colours and one phase per dot, in the order of the dots.
oneDotPerAcceptedPoint ==
    /\ emitted = {p \in scanGrid(call.step) : pointInMultiPolygon(p, call.polygons)}
    /\ Cardinality(emitted) = Len(call.result)
    /\ Len(call.positions) = 3 * Len(call.result)
    /\ Len(call.colors) = 3 * Len(call.result)
    /\ Len(call.rndIds) = Len(call.result)
    /\ \A k \in 1..Len(call.result) :
           /\ \A c \in 0..2 : call.positions[3 * k - c][1] = k
           /\ \A c \in 0..2 : call.colors[3 * k - c][1] = k
           /\ call.rndIds[k][1] = k

fixtureScan ==
    /\ call.fn = "generateWorldDots"
    /\ call.topology = ScanFixture
    /\ call.step = 5 * UnitsPerDegree

\* C22 as stated: the world scan emits one dot per grid point the classifier
\* accepts and keeps its three arrays aligned, and for the land [0,0]-[10,10]
\* at a 5 degree step the dots are the grid points of that square, its edges
\* and corners included ((0,0) and (10,10) among them).
C22_DotsAreTheSquaresGridPoints ==
    /\ call.fn = "generateWorldDots" => oneDotPerAcceptedPoint
    /\ fixtureScan =>
           emitted = {p \in scanGrid(call.step) :
                         /\ 0 <= p[1] /\ p[1] <= 10 * UnitsPerDegree
                         /\ 0 <= p[2] /\ p[2] <= 10 * UnitsPerDegree}

\* C22, amended: the same, and for the land [0,0]-[10,10] at a 5 degree step
\* the dots are the four grid points with 0 <= lng < 10 and 0 <= lat < 10: a
\* point on the lower or the left edge counts as inside, a point on the upper
\* or the right edge as outside.
C22_DotsAreTheAcceptedGridPoints ==
    /\ call.fn = "generateWorldDots" => oneDotPerAcceptedPoint
    /\ fixtureScan =>
           emitted = {p \in scanGrid(call.step) :
                         /\ 0 <= p[1] /\ p[1] < 10 * UnitsPerDegree
                         /\ 0 <= p[2] /\ p[2] < 10 * UnitsPerDegree}

\* C22, its case: the land [0,0]-[10,10] scanned at 5 degrees, four dots.
C22_Witness ==
    /\ fixtureScan
    /\ Len(call.result) = 4
    /\ Len(call.positions) = 12

\* C23: a topology whose only object is one square ring decodes to exactly one
\* polygon; the centroid of the square is classified inside it and a point far
\* outside is not.
C23_SquareRoundTrip ==
    call.fn = "classify" =>
        \A sq \in Squares :
            ( /\ call.topology.objects["land"].type = sq.shape
              /\ call.topology = SquareDocument(sq) ) =>
                /\ Len(call.result) = 1
                /\ call.point = squareCentroid(sq) => call.inside
                /\ call.point = farOutside(sq) => ~call.inside

\* C23, its case: a clockwise square behind a transform, its centroid inside.
C23_Witness ==
    /\ call.fn = "classify"
    /\ call.topology.hasTransform
    /\ call.topology.arcs[1][2] = <<0, 4>>
    /\ Len(call.result) = 1
    /\ call.inside

\* The rings of a list of geometries, in document order.
ringsInOrder(geometries) ==
    Flatten([i \in 1..Len(geometries) |->
                IF geometries[i].type = "Polygon" THEN geometries[i].arcs
                ELSE IF geometries[i].type = "MultiPolygon"
                     THEN Flatten(geometries[i].arcs)
                     ELSE <<>>])

\* Those rings decoded, without the ones of fewer than 3 points.
keptRings(topology, geometries) ==
    LET rings == ringsInOrder(geometries)
    IN SelectSeq([i \in 1..Len(rings) |-> referenceDecoder(topology, rings[i])],
                 LAMBDA coords : Len(coords) >= 3)

matchingGeometries(topology, countryId) ==
    SelectSeq(topology.objects["countries"].geometries,
              LAMBDA geom : geom.id.text = countryId)

\* C24: what topoJsonToPolygons and getCountryPolygons return is the rings of
\* the (matching) geometries in document order, each decoded, without those of
\* fewer than 3 points; every ring returned has at least 3 points.
C24_DegenerateRingsDropped ==
    /\ ( /\ call.fn = "topoJsonToPolygons"
         /\ call.name \in DOMAIN call.topology.objects )
           => LET obj == call.topology.objects[call.name]
              IN call.result =
                     keptRings(call.topology,
                               IF obj.type = "GeometryCollection"
                               THEN obj.geometries ELSE <<obj>>)
    /\ ( /\ call.fn = "getCountryPolygons"
         /\ "countries" \in DOMAIN call.topology.objects )
           => call.result =
                  keptRings(call.topology, matchingGeometries(call.topology, call.name))
    /\ call.fn \in {"topoJsonToPolygons", "getCountryPolygons"} =>
           \A k \in 1..Len(call.result) : Len(call.result[k]) >= 3

\* C24, its case: a land of eight rings, three of them of fewer than 3 points,
\* and five rings returned, one of exactly 3 points.
C24_Witness ==
    /\ call.fn = "topoJsonToPolygons"
    /\ call.topology = RingsDocument
    /\ call.name = "land"
    /\ Len(ringsInOrder(call.topology.objects["land"].geometries)) = 8
    /\ Len(call.result) = 5
    /\ \E k \in 1..Len(call.result) : Len(call.result[k]) = 3

\* C25: when the host configures magnet-return off, the magnet flag is false in
\* every state and no cooldown timer exists, whatever the presses, moves,
\* releases and frames; and a step changes the target rotation only if it is a
\* move event during a drag.
C25_MagnetOffStaysOff ==
    /\ [](~props.magnetToFocus => (~magnetToFocusRef /\ timers = {}))
    /\ [][(~props.magnetToFocus /\ targetRotationRef' # targetRotationRef) =>
             (isDraggingRef /\ \E p \in Pointers : anyMove(p))]_vars

\* C25, its case: magnet-return off, a drag that left the target away from the
\* focus, and the cooldown time over since the release.
C25_Witness ==
    /\ ~props.magnetToFocus
    /\ gesture = "released"
    /\ sinceRelease = CooldownMs
    /\ ~isDraggingRef
    /\ targetRotationRef # focusRot
    /\ rotation # focusRot

\* r + h * sin(pi * i / 50), h = min(0.4 * r, 0.3 * distance(start, end)).
claimedDistance(start, end, i) ==
    LET d == vectorLength([c \in 1..3 |-> start[c] - end[c]])
        h == Min2((4 * GlobeRadius) \div 10, (3 * d) \div 10)
    IN GlobeRadius + (h * SinTable[i + 1]) \div 1000

\* C26: createArc returns 51 points, the first the start and the last the end;
\* point i lies at distance r + h * sin(pi * i / 50) from the origin (to 0.5% of
\* r, the precision of the arithmetic here), so no nearer than r and no farther
\* than 1.4 r; and for distinct endpoints the midpoint lies farther than r.
C26_ArcBulgesOutward ==
    call.fn = "createArc" =>
        /\ Len(call.result) = Segments + 1
        /\ call.result[1] = call.start
        /\ call.result[Segments + 1] = call.end
        /\ \A i \in 0..Segments :
               LET far == vectorLength(call.result[i + 1])
               IN /\ Abs(far - claimedDistance(call.start, call.end, i)) <= 5
                  /\ far >= GlobeRadius - 5
                  /\ far <= (14 * GlobeRadius) \div 10 + 5
        /\ call.start # call.end =>
               vectorLength(call.result[Segments \div 2 + 1]) > GlobeRadius

\* C27: the drag-time input of a dot material is never negative and its flag
\* is 1 whenever the input is above 0; a frame during a drag leaves the flag at
\* 1; a frame outside a drag takes 30 off the input, or leaves it at 0 when no
\* more than 30 remains; and the flag goes from 1 to 0 only in a frame outside
\* a drag that starts with the input at 0.
C27_ShimmerDecays ==
    /\ [](\A v \in Views :
             /\ uniforms[v].u_drag_time >= 0
             /\ uniforms[v].u_drag_time > 0 => uniforms[v].u_is_dragging = 1)
    /\ [][((\E v \in Views : Frame(v)) /\ dotMaterialRef # 0) =>
             LET before == uniforms[dotMaterialRef]
                 after == uniforms'[dotMaterialRef]
             IN /\ isDraggingRef => after.u_is_dragging = 1
                /\ ~isDraggingRef =>
                       after.u_drag_time = IF before.u_drag_time > 30
                                           THEN before.u_drag_time - 30 ELSE 0
                /\ (before.u_is_dragging = 1 /\ after.u_is_dragging = 0) =>
                       (~isDraggingRef /\ before.u_drag_time = 0)]_vars

\* C27, its case: after a release, thirty frames or more into the decay, less
\* than one step of the input left and the flag still 1.
C27_Witness ==
    /\ dotMaterialRef # 0
    /\ ~isDraggingRef
    /\ gesture = "released"
    /\ pulseFrames >= 30
    /\ uniforms[dotMaterialRef].u_drag_time > 0
    /\ uniforms[dotMaterialRef].u_drag_time < 30
    /\ uniforms[dotMaterialRef].u_is_dragging = 1

\* C28: the pulse progress of the arc of index i lies in [-0.075 i, 1.2]; a
\* frame adds 0.006 to it unless the sum exceeds 1.2, and then sets it to
\* -0.075 i; and after a frame the pulse is visible exactly when the progress
\* is strictly between 0 and 1.
C28_PulseProgressCycles ==
    /\ [](\A k \in 1..Len(pulses) :
             /\ pulses[k].pulseProgress >= -75 * pulses[k].index
             /\ pulses[k].pulseProgress <= 1200
             /\ pulseFrames > 0 =>
                    (pulses[k].visible <=>
                        (0 < pulses[k].pulseProgress /\ pulses[k].pulseProgress < 1000)))
    /\ [][(\E v \in Views : Frame(v)) =>
             /\ Len(pulses') = Len(pulses)
             /\ \A k \in 1..Len(pulses) :
                    pulses'[k].pulseProgress =
                        IF pulses[k].pulseProgress + 6 > 1200
                        THEN -75 * pulses[k].index
                        ELSE pulses[k].pulseProgress + 6]_vars

\* C28, its case: ten arcs after a whole pass, the last of them set back to
\* -0.675 and the first to 0, both hidden.
C28_Witness ==
    /\ Len(pulses) = 10
    /\ pulseFrames > 200
    /\ pulses[10].pulseProgress = -675
    /\ ~pulses[10].visible
    /\ pulses[1].pulseProgress = 0
    /\ ~pulses[1].visible

\* C29: a pulse that a frame has placed is on sample floor(progress * 50) of
\* its arc, one of the samples 0..49 and never the last one, 50; and from one
\* visible frame to the next the sample does not decrease.
C29_PulseSampleInRange ==
    /\ [](\A k \in 1..Len(pulses) :
             (pulseFrames > 0 /\ pulses[k].visible) =>
                 /\ pulses[k].sample \in 0..49
                 /\ 50 * pulses[k].pulseProgress >= 1000 * pulses[k].sample
                 /\ 50 * pulses[k].pulseProgress < 1000 * (pulses[k].sample + 1))
    /\ [][(\E v \in Views : Frame(v)) =>
             \A k \in 1..Len(pulses) :
                 (pulseFrames > 0 /\ pulses[k].visible /\ pulses'[k].visible) =>
                     pulses'[k].sample >= pulses[k].sample]_vars

\* C29, its case: a pulse on sample 49, in its last visible frame.
C29_Witness ==
    /\ pulseFrames > 0
    /\ \E k \in 1..Len(pulses) :
           /\ pulses[k].visible
           /\ pulses[k].sample = 49
           /\ pulses[k].pulseProgress + 6 >= 1000

rejectedLoad(l) == l.land = "rejected" \/ l.countries = "rejected"

\* C30: in every state the two cache slots are both empty or both hold a
\* document; and the step in which a load fails because one of its requests
\* rejected writes neither slot, whichever request settled first.
C30_SlotsPopulatedTogether ==
    /\ [](truthy(cachedLandTopo) = truthy(cachedCountriesTopo))
    /\ [][\A v \in Views :
             ( /\ load[v].status = "fetching"
               /\ load'[v].status = "failed"
               /\ rejectedLoad(load'[v]) ) =>
                 /\ cachedLandTopo' = cachedLandTopo
                 /\ cachedCountriesTopo' = cachedCountriesTopo]_vars

====
